---------------------------- MODULE Spec2Model ----------------------------
(***************************************************************************)
(* Model of the GA-SF mapping dashboard: the incremental merge engine and  *)
(* the warehouse upload (src/modules/bigquery_manager.py) and the          *)
(* canonicalizer, deduplicators, mappers and window expander               *)
(* (src/modules/data_processor.py).                                        *)
(*                                                                         *)
(* A DataFrame is a record [cols, rows]: cols is the set of column names,  *)
(* rows the sequence of rows, each row a function from cols to values.     *)
(* A calendar date is the number yymmdd (240105 is 2024-01-05); a DATE     *)
(* value and the midnight Timestamp pandas makes of it denote the same     *)
(* calendar day and are both represented by that number.                   *)
(***************************************************************************)
EXTENDS Integers, Sequences, FiniteSets, Bags, TLC

VARIABLES
    new_df,        \* argument new_df of the merge call under test
    existing_df,   \* argument existing_df of the merge call under test
    merge_out,     \* what the merge call returned (or raised)
    mpc,           \* position of the merge call: "call" or "returned"
    table,         \* the persisted tables: name -> [cols, rows], rows a bag
    ver,           \* name -> number of replacements the table has seen
    last_load,     \* name -> the frame and version of its latest load job
    pc,            \* session -> position of its upload run
    run,           \* session -> the locals of its upload run
    nruns,         \* upload runs started so far
    call,          \* the data_processor call under test: function, arguments
    result,        \* what that call returned (or raised)
    ppc,           \* position of that call: "call" or "returned"
    secrets,       \* st.secrets: the [auth] lists and the [security] values
    session_state, \* st.session_state of the dashboard session
    page           \* the latest script run of the session: view, event

mergeVars == <<new_df, existing_df, merge_out, mpc>>
uploadVars == <<table, ver, last_load, pc, run, nruns>>
processVars == <<call, result, ppc>>
appVars == <<secrets, session_state, page>>
vars == <<new_df, existing_df, merge_out, mpc,
          table, ver, last_load, pc, run, nruns,
          call, result, ppc,
         secrets, session_state, page>>

(***************************************************************************)
(* Bounds                                                                  *)
(***************************************************************************)
MaxRows == 2       \* longest DataFrame handed to a bare merge call
MaxRuns == 2       \* upload runs in one behaviour
MaxRecords == 3    \* longest frame handed to a bare deduplicator call
MaxMapRows == 2    \* longest frame or list handed to a bare mapping call
MaxCampaignRows == 1   \* longest frame handed to a bare campaign call

(***************************************************************************)
(* Values                                                                  *)
(***************************************************************************)
\* Python None in a column of numbers (prepare_upload_df fills a missing
\* column with None; concat fills a missing cell with NaN).
NoneInt == -1
\* Python None in a column of strings.
NoneStr == "<None>"
\* pandas NaT: what pd.to_datetime makes of None.
NaT == -2

IntCols == {"Month", "Year", "Date"}
NoneOf(c) == IF c \in IntCols THEN NoneInt ELSE NoneStr

\* Series.astype(str): a string stays, None becomes the text "None".
AsStr(v) == IF v = NoneStr THEN "None" ELSE v

\* pd.to_datetime: a date keeps its calendar day, None becomes NaT.
ToDatetime(v) == IF v = NoneInt THEN NaT ELSE v

\* Comparison of two Timestamps with >= ; any comparison with NaT is False.
DateGE(a, b) == a # NaT /\ b # NaT /\ a >= b

\* add_month_year_columns: Month and Year of a date.
MonthOf(d) == (d \div 100) % 100
YearOf(d) == 2000 + (d \div 10000)

(***************************************************************************)
(* DataFrames                                                              *)
(***************************************************************************)
Range(s) == {s[i] : i \in DOMAIN s}

\* pd.DataFrame(): no columns, no rows.
EmptyFrame == [cols |-> {}, rows |-> <<>>]

\* Mutation of IsEmpty: no frame counts as empty.
IsEmpty_never(df) == FALSE

\* DataFrame.empty: some axis has length 0.
IsEmpty(df) == df.cols = {} \/ df.rows = <<>>

\* df[df['_key'].isin(keys)]
RowsIsin(df, keys) ==
    [cols |-> df.cols,
     rows |-> SelectSeq(df.rows, LAMBDA r : r["_key"] \in keys)]

\* set(df['_key'].unique())
KeySet(df) == {r["_key"] : r \in Range(df.rows)}

\* df.set_index('_key')[col].to_dict(): the last row of a key is the one
\* the dictionary keeps.
ToDict(df, col) ==
    [k \in KeySet(df) |->
        LET last == CHOOSE i \in DOMAIN df.rows :
                       /\ df.rows[i]["_key"] = k
                       /\ \A j \in DOMAIN df.rows :
                             df.rows[j]["_key"] = k => j <= i
        IN  df.rows[last][col]]

RECURSIVE ConcatRows(_, _)
ConcatRows(parts, cols) ==
    IF parts = <<>> THEN <<>>
    ELSE LET p == Head(parts)
             widened == [i \in DOMAIN p.rows |->
                            [c \in cols |-> IF c \in p.cols THEN p.rows[i][c]
                                            ELSE NoneOf(c)]]
         IN  widened \o ConcatRows(Tail(parts), cols)

\* pd.concat(result_parts, ignore_index=True): rows in the order of the
\* parts, columns the union of the parts' columns, missing cells filled.
Concat(parts) ==
    LET cols == UNION {parts[i].cols : i \in DOMAIN parts}
    IN  [cols |-> cols, rows |-> ConcatRows(parts, cols)]

\* Mutation of DropKey: the helper column is left in the result.
DropKey_kept(df) == df

\* merged_df.drop(columns=['_key']) when the column is there.
DropKey(df) ==
    IF "_key" \in df.cols
    THEN [cols |-> df.cols \ {"_key"},
          rows |-> [i \in DOMAIN df.rows |->
                       [c \in df.cols \ {"_key"} |-> df.rows[i][c]]]]
    ELSE df

(***************************************************************************)
(* merge_with_existing_data                                                *)
(***************************************************************************)
KeyCols == {"Mobile", "Month", "Year"}

\* Lines 196-200: the exception the type coercion of one frame raises.
CoerceError(df) ==
    IF ~({"Mobile", "Month", "Year", "Date"} \subseteq df.cols) THEN "KeyError"
    ELSE IF \E r \in Range(df.rows) : r["Month"] = NoneInt \/ r["Year"] = NoneInt
         THEN "TypeError"
         ELSE "none"

\* Lines 196-204: coerced columns and the helper column _key.  The text
\* Mobile_Month_Year is represented by the triple it is made of.
WithKey(df) ==
    [cols |-> df.cols \cup {"_key"},
     rows |-> [i \in DOMAIN df.rows |->
        LET r == df.rows[i] IN
        [c \in df.cols \cup {"_key"} |->
            CASE c = "_key"   -> <<AsStr(r["Mobile"]), r["Month"], r["Year"]>>
              [] c = "Mobile" -> AsStr(r["Mobile"])
              [] c = "Date"   -> ToDatetime(r["Date"])
              [] OTHER        -> r[c]]]]

Raised(e) == [ok |-> FALSE, error |-> e]

Returned(df, n, u) ==
    [ok |-> TRUE, merged_df |-> df,
     new_records_count |-> n, status_updates_count |-> u]

\* Mutation of DegenerateReturn: the rows are not counted as new records.
DegenerateReturn_uncounted(new) == Returned(new, 0, 0)

\* Lines 189-190: nothing persisted yet.
DegenerateReturn(new) == Returned(new, Len(new.rows), 0)

\* Line 211-212
OnlyNewKeys(new_keys, existing_keys) == new_keys \ existing_keys
NewRecordsCount(only_new_keys) == Cardinality(only_new_keys)

\* Mutation of OnlyExistingKeys: history not touched by the run is dropped.
OnlyExistingKeys_dropped(new_keys, existing_keys) == {}

\* Line 215
OnlyExistingKeys(new_keys, existing_keys) == existing_keys \ new_keys

\* Mutation of OverlappingKeys: no key is taken to be on both sides.
OverlappingKeys_none(new_keys, existing_keys) == {}

\* Line 218
OverlappingKeys(new_keys, existing_keys) == existing_keys \cap new_keys

\* Mutation of UseNew: a tie goes to the existing rows.
UseNew_strict(new_date, existing_date) ==
    new_date # NaT /\ existing_date # NaT /\ new_date > existing_date

\* Line 248: the new rows of a key are used when its new date is not
\* earlier than its existing date.
UseNew(new_date, existing_date) == DateGE(new_date, existing_date)

\* Mutation of StatusChanged: every key taken from the new rows counts.
StatusChanged_always(new_status, existing_status) == TRUE

\* Line 263
StatusChanged(new_status, existing_status) == new_status # existing_status

merge_with_existing_data(new, existing) ==
    IF IsEmpty(existing) THEN DegenerateReturn(new)
    ELSE IF CoerceError(new) # "none" THEN Raised(CoerceError(new))
    ELSE IF CoerceError(existing) # "none" THEN Raised(CoerceError(existing))
    ELSE
    LET n == WithKey(new)
        e == WithKey(existing)
        existing_keys == KeySet(e)
        new_keys == KeySet(n)
        only_new_keys == OnlyNewKeys(new_keys, existing_keys)
        new_records_count == NewRecordsCount(only_new_keys)
        only_existing_keys == OnlyExistingKeys(new_keys, existing_keys)
        overlapping_keys == OverlappingKeys(new_keys, existing_keys)
        new_only_df == RowsIsin(n, only_new_keys)
        existing_only_df == RowsIsin(e, only_existing_keys)
        new_overlap == RowsIsin(n, overlapping_keys)
        existing_overlap == RowsIsin(e, overlapping_keys)
        new_dates == ToDict(new_overlap, "Date")
        existing_dates == ToDict(existing_overlap, "Date")
        keys_use_new == {k \in overlapping_keys :
                            UseNew(new_dates[k], existing_dates[k])}
        keys_use_existing == overlapping_keys \ keys_use_new
        records_from_new == RowsIsin(new_overlap, keys_use_new)
        records_from_existing == RowsIsin(existing_overlap, keys_use_existing)
        status_updates_count ==
            IF "Status" \in new_overlap.cols /\ "Status" \in existing_overlap.cols
            THEN Cardinality({k \in keys_use_new :
                     StatusChanged(ToDict(new_overlap, "Status")[k],
                                   ToDict(existing_overlap, "Status")[k])})
            ELSE 0
        result_parts ==
            (IF IsEmpty(new_only_df) THEN <<>> ELSE <<new_only_df>>)
            \o (IF IsEmpty(existing_only_df) THEN <<>> ELSE <<existing_only_df>>)
            \o (IF keys_use_new # {} THEN <<records_from_new>> ELSE <<>>)
            \o (IF keys_use_existing # {} THEN <<records_from_existing>> ELSE <<>>)
        merged_df == IF result_parts # <<>> THEN Concat(result_parts)
                     ELSE EmptyFrame
    IN  Returned(DropKey(merged_df), new_records_count, status_updates_count)

(***************************************************************************)
(* Records                                                                 *)
(***************************************************************************)
AllCols == {"Mobile", "Date", "Final_Source", "Status", "Month", "Year"}

\* A mapped record as process_ga_data leaves it: Month and Year are those
\* of its Date.
MkRow(mobile, date, source, status) ==
    [Mobile |-> mobile, Date |-> date, Final_Source |-> source,
     Status |-> status, Month |-> MonthOf(date), Year |-> YearOf(date)]

MergeRows ==
    { MkRow("9000000001", 240101, "NA", "Open"),
      MkRow("9000000001", 240101, "NA", "Converted"),
      MkRow("9000000001", 240105, "Winter22", "Open"),
      MkRow("9000000001", 240105, "Winter22", "Converted"),
      MkRow("9000000001", 240210, "NA", "Open"),
      MkRow("9000000002", 240105, "NA", "Open"),
      MkRow("9000000001", 250101, "NA", "Open") }

RECURSIVE SeqsUpTo(_, _)
SeqsUpTo(S, n) ==
    IF n = 0 THEN {<<>>}
    ELSE LET shorter == SeqsUpTo(S, n - 1)
         IN  shorter \cup {Append(s, x) : s \in shorter, x \in S}

Frame(rows) == [cols |-> AllCols, rows |-> rows]

MergeFrames == {Frame(rows) : rows \in SeqsUpTo(MergeRows, MaxRows)}

NoOutput == [ok |-> FALSE, error |-> "not called"]

(***************************************************************************)
(* The persisted tables and the upload runs                                *)
(***************************************************************************)
BQ_TABLE_GA_SF == "GA_SF_Mapped"
BQ_TABLE_GA_SF_NE == "GA_SF_NE_Mapped"
TableNames == {BQ_TABLE_GA_SF, BQ_TABLE_GA_SF_NE}

\* The names of the fields of GA_SF_SCHEMA (those the model carries).
GA_SF_SCHEMA == AllCols

Sessions == {"s1", "s2"}

ToBag(rows) ==
    [r \in Range(rows) |-> Cardinality({i \in DOMAIN rows : rows[i] = r})]

\* The orders in which a query may return the rows of a table.
Orders(bag) ==
    {s \in [1..BagCardinality(bag) -> BagToSet(bag)] : ToBag(s) = bag}

Stored(df) == [cols |-> df.cols, rows |-> ToBag(df.rows)]

\* get_existing_data: the frames the query may return; a failed query is
\* reported with st.warning and returns pd.DataFrame().
get_existing_data(t, failed) ==
    IF failed THEN {EmptyFrame}
    ELSE {[cols |-> table[t].cols, rows |-> s] : s \in Orders(table[t].rows)}

\* prepare_upload_df: the target columns in order, a missing one filled
\* with None, Date made a date again.
prepare_upload_df(df, target_columns) ==
    [cols |-> target_columns,
     rows |-> [i \in DOMAIN df.rows |->
        [c \in target_columns |->
            IF c = "Date"
            THEN (IF c \in df.cols THEN ToDatetime(df.rows[i][c]) ELSE NaT)
            ELSE (IF c \in df.cols THEN df.rows[i][c] ELSE NoneOf(c))]]]

Stats(n, u, total) == [new_records |-> n, status_updates |-> u, total_rows |-> total]

\* Lines 369 and 444: what the except clause returns.
FailureReturn == [success |-> FALSE, stats |-> Stats(0, 0, 0)]

\* Lines 339-345 of upload_ga_sf_data: the frame to load and the counts,
\* or the exception raised on the way.
GaSfFinal(df, existing) ==
    LET upload_df == prepare_upload_df(df, GA_SF_SCHEMA)
        m == merge_with_existing_data(upload_df, existing)
    IN  IF ~m.ok THEN m
        ELSE Returned(prepare_upload_df(m.merged_df, GA_SF_SCHEMA),
                      m.new_records_count, m.status_updates_count)

\* Lines 409-420 of upload_ga_sf_ne_data: merge when the frame has the key
\* columns, else the frame alone.
NeFinal(df, existing) ==
    LET upload_df == [cols |-> df.cols,
                      rows |-> [i \in DOMAIN df.rows |->
                         [c \in df.cols |->
                             IF c = "Date" THEN ToDatetime(df.rows[i][c])
                             ELSE df.rows[i][c]]]]
    IN  IF KeyCols \subseteq df.cols
        THEN merge_with_existing_data(upload_df, existing)
        ELSE Returned(upload_df, Len(upload_df.rows), 0)

Final(t, df, existing) ==
    IF t = BQ_TABLE_GA_SF THEN GaSfFinal(df, existing) ELSE NeFinal(df, existing)

NoFrame == [cols |-> {}, rows |-> <<>>, none |-> TRUE]
NoLoad == [df |-> NoFrame, ver |-> 0]

NoRun ==
    [target |-> "", df |-> NoFrame, existing |-> NoFrame,
     did_read |-> FALSE, read_failed |-> FALSE, read_ver |-> 0,
     read_load |-> NoLoad, read_table |-> Stored(EmptyFrame),
     raised |-> FALSE, load_failed |-> FALSE, load_ver |-> 0,
     before |-> Stored(EmptyFrame), after |-> Stored(EmptyFrame),
     success |-> FALSE, stats |-> Stats(0, 0, 0)]

\* Mutation of LoadJob: the job appends (WRITE_APPEND) to the table.
LoadJob_append(old, final_df) ==
    [cols |-> final_df.cols, rows |-> old.rows (+) ToBag(final_df.rows)]

\* Lines 348-354 and 423-429: the WRITE_TRUNCATE load job replaces the
\* whole table by the frame.
LoadJob(old, final_df) == Stored(final_df)

\* Record sets as process_ga_data computes them: one row for a lead and a
\* month.
RowA == MkRow("9000000001", 240101, "NA", "Open")
RowB == MkRow("9000000001", 240105, "Winter22", "Converted")
RowC == MkRow("9000000001", 240210, "NA", "Open")

ComputedFrames ==
    {Frame(<<RowA>>), Frame(<<RowB>>), Frame(<<RowC>>), Frame(<<RowB, RowC>>)}

\* A frame without one of its columns.
Without(df, col) ==
    [cols |-> df.cols \ {col},
     rows |-> [i \in DOMAIN df.rows |->
                  [c \in df.cols \ {col} |-> df.rows[i][c]]]]

\* Frames the dashboard hands to upload_ga_sf_data and to
\* upload_ga_sf_ne_data: record sets process_ga_data has computed.
GaSfFrames == ComputedFrames

NeFrames == {Frame(<<RowB>>), Frame(<<RowC>>)}

\* Frames that lack a field of the composite key, and one that has them
\* all: the arguments of the uploads called on their own.
SchemaFrames ==
    {Without(Frame(<<RowB>>), c) : c \in KeyCols} \cup {Frame(<<RowB>>)}

\* Tables earlier runs have left behind: the load of a computed record set
\* into an empty table stores that record set.
GaSfTables ==
    {Stored(Frame(<<>>)), Stored(Frame(<<RowA>>)), Stored(Frame(<<RowB>>)),
     Stored(Frame(<<RowA, RowC>>))}

NeTables == {Stored(Frame(<<>>)), Stored(Frame(<<RowA>>))}

(***************************************************************************)
(* The dashboard session: sign-in, access gate, reset dialogs, uploads.    *)
(* A text that is looked into (an email, a domain) is the sequence of its  *)
(* characters.  One browser session is followed; its uploads are the runs  *)
(* of AppSession.                                                          *)
(***************************************************************************)
AppSession == "s1"

\* Mutation of Lower: texts are compared as they are written.
Lower_same(s) == s

\* str.lower()
Lower(s) ==
    [i \in DOMAIN s |->
        CASE s[i] = "A" -> "a" [] s[i] = "B" -> "b" [] s[i] = "C" -> "c"
          [] s[i] = "X" -> "x" [] s[i] = "Y" -> "y" [] s[i] = "Z" -> "z"
          [] OTHER -> s[i]]

\* Authenticator.check_email_access, auth.py lines 40-58.  auth holds the
\* three lists __init__ reads from st.secrets; None and '' are <<>>.
check_email_access(email, auth) ==
    LET lowered(list) == {Lower(e) : e \in list}
        ats == {i \in DOMAIN email : email[i] = "@"}
        last_part == IF ats = {} THEN email
                     ELSE SubSeq(email,
                                 (CHOOSE i \in ats : \A j \in ats : j <= i) + 1,
                                 Len(email))
    IN  IF email = <<>> THEN FALSE
        ELSE IF Lower(email) \in lowered(auth.blocked_emails) THEN FALSE
        ELSE IF Lower(email) \in lowered(auth.allowed_emails) THEN TRUE
        ELSE Lower(last_part) \in lowered(auth.allowed_domains)

\* main, app.py lines 255-265: what a script run shows.
Gate(state, auth) ==
    IF ~state.authenticated THEN "login"
    ELSE IF ~check_email_access(state.user_email, auth) THEN "denied"
    ELSE "body"

\* app.py line 199: the default of max_password_attempts.
max_attempts == 3

\* Mutation of LockedOut: the dialog never locks.
LockedOut_never(attempts) == FALSE

\* app.py line 202
LockedOut(attempts) == attempts >= max_attempts

\* handle_reset_with_password, app.py lines 190-247, for one table:
\* attempts is st.session_state[attempt_key]; clicked says that the run
\* is the click of Confirm Reset.  reset says that reset_table is called.
handle_reset_with_password(attempts, clicked, password, correct_password) ==
    IF LockedOut(attempts) THEN [attempts |-> attempts, reset |-> FALSE]
    ELSE IF ~clicked THEN [attempts |-> attempts, reset |-> FALSE]
    ELSE IF password = correct_password THEN [attempts |-> 0, reset |-> TRUE]
    ELSE [attempts |-> attempts + 1, reset |-> FALSE]

\* reset_table, bigquery_manager lines 109-147: the table after the call.
\* Without a client the table is left as it is.  When the drop is done
\* and the creation fails there is no table: it reads as no rows and the
\* next upload creates it (ensure_table_exists), as if it were fresh.
reset_table(old, outcome) ==
    CASE outcome = "no client" -> old
      [] outcome = "dropped" -> Stored([cols |-> GA_SF_SCHEMA, rows |-> <<>>])
      [] OTHER -> Stored([cols |-> GA_SF_SCHEMA, rows |-> <<>>])

\* secrets.toml: the lists of [auth] and the values of [security].
SecretsWith(blocked_emails) ==
    [auth |-> [allowed_domains |-> {<<"X">>},
               allowed_emails |-> {<<"b", "@", "y">>, <<"c", "@", "y">>},
               blocked_emails |-> blocked_emails],
     security |-> [reset_password |-> "secret"]]

\* st.session_state of a new session, with the keys main and the reset
\* dialog initialise (lines 197, 283-286).
FreshSession ==
    [authenticated |-> FALSE, user_email |-> <<>>,
     reset_attempts |-> [t \in TableNames |-> 0],
     show_reset |-> [t \in TableNames |-> FALSE]]

\* The script run that has rendered the page: what it shows, the Confirm
\* Reset click it handled (table and password), the tables reset_table was
\* called for.
Page(view, confirm, reset) ==
    [view |-> view, confirm |-> confirm, reset |-> reset]

NoApp ==
    /\ secrets = SecretsWith({})
    /\ session_state = FreshSession
    /\ page = Page("login", <<>>, {})

\* The blocked_emails lists secrets.toml has over time.
BlockedLists ==
    {{<<"C", "@", "Y">>, <<"A", "@", "x">>},
     {<<"C", "@", "Y">>, <<"A", "@", "x">>, <<"b", "@", "X">>}}

NoMerge ==
    /\ new_df = EmptyFrame
    /\ existing_df = EmptyFrame
    /\ merge_out = NoOutput
    /\ mpc = "idle"

NoUploads ==
    /\ table = [t \in TableNames |-> Stored(Frame(<<>>))]
    /\ ver = [t \in TableNames |-> 0]
    /\ last_load = [t \in TableNames |-> NoLoad]
    /\ pc = [s \in Sessions |-> "idle"]
    /\ run = [s \in Sessions |-> NoRun]
    /\ nruns = 0

NoCall == [fn |-> "none"]

NoProcess ==
    /\ call = NoCall
    /\ result = NoCall
    /\ ppc = "idle"

Init ==
    /\ NoMerge
    /\ NoProcess
    /\ NoApp
    /\ table \in {[t \in TableNames |->
                      IF t = BQ_TABLE_GA_SF THEN g ELSE n] :
                  g \in GaSfTables, n \in NeTables}
    /\ ver = [t \in TableNames |-> 0]
    /\ last_load = [t \in TableNames |-> NoLoad]
    /\ pc = [s \in Sessions |-> "idle"]
    /\ run = [s \in Sessions |-> NoRun]
    /\ nruns = 0

\* Lines 329-336 and 387-407: the button handler calls the upload with the
\* session's frame; the client is made, the table ensured and the whole
\* table read.  An exception before the read ends the run in the except
\* clause; a failed read does not.
UploadRead(s, t, df) ==
    /\ pc[s] \in {"idle", "done"}
    /\ nruns < MaxRuns
    /\ nruns' = nruns + 1
    /\ \/ /\ pc' = [pc EXCEPT ![s] = "done"]
          /\ run' = [run EXCEPT ![s] =
                        [NoRun EXCEPT !.target = t, !.df = df, !.raised = TRUE,
                                      !.before = table[t], !.after = table[t],
                                      !.read_ver = ver[t], !.load_ver = ver[t]]]
       \/ /\ pc' = [pc EXCEPT ![s] = "load"]
          /\ \E failed \in BOOLEAN :
             \E existing \in get_existing_data(t, failed) :
                run' = [run EXCEPT ![s] =
                           [NoRun EXCEPT !.target = t, !.df = df,
                                         !.existing = existing,
                                         !.did_read = TRUE,
                                         !.read_failed = failed,
                                         !.read_ver = ver[t],
                                         !.read_load = last_load[t],
                                         !.read_table = table[t]]]
    /\ UNCHANGED <<table, ver, last_load, mergeVars, processVars, appVars>>

\* Lines 339-369 and 409-444: merge, then the load job, which replaces the
\* whole table or fails and leaves it; an exception ends the run in the
\* except clause.
MergeAndLoad(s) ==
    /\ pc[s] = "load"
    /\ LET t == run[s].target
           f == Final(t, run[s].df, run[s].existing)
           at == [run[s] EXCEPT !.existing = NoFrame, !.before = table[t],
                                !.after = table[t], !.load_ver = ver[t]]
       IN  \/ /\ ~f.ok
              /\ run' = [run EXCEPT ![s] = [at EXCEPT !.raised = TRUE]]
              /\ UNCHANGED <<table, ver, last_load>>
           \/ /\ f.ok
              /\ run' = [run EXCEPT ![s] = [at EXCEPT !.load_failed = TRUE]]
              /\ UNCHANGED <<table, ver, last_load>>
           \/ /\ f.ok
              /\ table' = [table EXCEPT ![t] = LoadJob(table[t], f.merged_df)]
              /\ ver' = [ver EXCEPT ![t] = @ + 1]
              /\ last_load' = [last_load EXCEPT ![t] =
                                  [df |-> run[s].df, ver |-> ver[t] + 1]]
              /\ run' = [run EXCEPT ![s] =
                            [at EXCEPT !.after = table'[t],
                                       !.success = TRUE,
                                       !.stats = Stats(f.new_records_count,
                                                       f.status_updates_count,
                                                       Len(f.merged_df.rows))]]
    /\ pc' = [pc EXCEPT ![s] = "done"]
    /\ UNCHANGED <<nruns, mergeVars, processVars, appVars>>

Next ==
    \E s \in Sessions :
        \/ \E df \in GaSfFrames : UploadRead(s, BQ_TABLE_GA_SF, df)
        \/ \E df \in NeFrames : UploadRead(s, BQ_TABLE_GA_SF_NE, df)
        \/ MergeAndLoad(s)

Spec == Init /\ [][Next]_vars

\* The two uploads called with frames of any shape.
NextSchema ==
    \E s \in Sessions :
        \/ \E t \in TableNames, df \in SchemaFrames : UploadRead(s, t, df)
        \/ MergeAndLoad(s)

SpecSchema == Init /\ [][NextSchema]_vars

(***************************************************************************)
(* The bare merge call: any two frames, then the call.                     *)
(***************************************************************************)
InitMerge ==
    /\ new_df \in MergeFrames
    /\ existing_df \in MergeFrames
    /\ merge_out = NoOutput
    /\ mpc = "call"
    /\ NoUploads
    /\ NoProcess
    /\ NoApp

MergeCall ==
    /\ mpc = "call"
    /\ merge_out' = merge_with_existing_data(new_df, existing_df)
    /\ mpc' = "returned"
    /\ UNCHANGED <<new_df, existing_df, uploadVars, processVars, appVars>>

NextMerge == MergeCall

SpecMerge == InitMerge /\ [][NextMerge]_vars

(***************************************************************************)
(* Strings.  TLC cannot look inside a string, so the characters of every   *)
(* string a data_processor call handles are given here, with their code    *)
(* points: substring search, the regular expression and the ordering of    *)
(* strings are computed from them.                                         *)
(***************************************************************************)
Text ==
       ("NA" :> <<"N", "A">>)
    @@ ("Summer Brand Promo" :> <<"S", "u", "m", "m", "e", "r", " ", "B", "r", "a", "n", "d", " ", "P", "r", "o", "m", "o">>)
    @@ ("Generic Sale" :> <<"G", "e", "n", "e", "r", "i", "c", " ", "S", "a", "l", "e">>)
    @@ ("Winter22" :> <<"W", "i", "n", "t", "e", "r", "2", "2">>)
    @@ ("Anything" :> <<"A", "n", "y", "t", "h", "i", "n", "g">>)
    @@ ("brand sale" :> <<"b", "r", "a", "n", "d", " ", "s", "a", "l", "e">>)
    @@ ("FT_Organic" :> <<"F", "T", "_", "O", "r", "g", "a", "n", "i", "c">>)
    @@ ("(not set)" :> <<"(", "n", "o", "t", " ", "s", "e", "t", ")">>)
    @@ ("bangalore" :> <<"b", "a", "n", "g", "a", "l", "o", "r", "e">>)
    @@ ("Bangalore" :> <<"B", "a", "n", "g", "a", "l", "o", "r", "e">>)
    @@ ("9000000001" :> <<"9", "0", "0", "0", "0", "0", "0", "0", "0", "1">>)
    @@ ("9000000002" :> <<"9", "0", "0", "0", "0", "0", "0", "0", "0", "2">>)
    @@ ("9190000000" :> <<"9", "1", "9", "0", "0", "0", "0", "0", "0", "0">>)
    @@ ("pnm_9000000001" :> <<"p", "n", "m", "_", "9", "0", "0", "0", "0", "0", "0", "0", "0", "1">>)
    @@ ("919000000001x9000000002" :> <<"9", "1", "9", "0", "0", "0", "0", "0", "0", "0", "0", "1", "x", "9", "0", "0", "0", "0", "0", "0", "0", "0", "2">>)
    @@ ("a9000000002b9000000001" :> <<"a", "9", "0", "0", "0", "0", "0", "0", "0", "0", "2", "b", "9", "0", "0", "0", "0", "0", "0", "0", "0", "1">>)
    @@ ("90000 00001" :> <<"9", "0", "0", "0", "0", " ", "0", "0", "0", "0", "1">>)
    @@ ("900000000" :> <<"9", "0", "0", "0", "0", "0", "0", "0", "0">>)
    @@ ("City" :> <<"C", "i", "t", "y">>)
    @@ ("Status" :> <<"S", "t", "a", "t", "u", "s">>)
    @@ ("Created On" :> <<"C", "r", "e", "a", "t", "e", "d", " ", "O", "n">>)
    @@ ("Lead Date" :> <<"L", "e", "a", "d", " ", "D", "a", "t", "e">>)

Ord ==
    (" " :> 32) @@ ("(" :> 40) @@ (")" :> 41) @@ ("0" :> 48) @@ ("1" :> 49)
     @@ ("2" :> 50) @@ ("9" :> 57) @@ ("A" :> 65) @@ ("B" :> 66)
     @@ ("C" :> 67) @@ ("D" :> 68) @@ ("F" :> 70) @@ ("G" :> 71)
     @@ ("L" :> 76) @@ ("N" :> 78) @@ ("O" :> 79) @@ ("P" :> 80)
     @@ ("S" :> 83) @@ ("T" :> 84) @@ ("W" :> 87) @@ ("_" :> 95)
     @@ ("a" :> 97) @@ ("b" :> 98) @@ ("c" :> 99) @@ ("d" :> 100)
     @@ ("e" :> 101) @@ ("g" :> 103) @@ ("h" :> 104) @@ ("i" :> 105)
     @@ ("l" :> 108) @@ ("m" :> 109) @@ ("n" :> 110) @@ ("o" :> 111)
     @@ ("p" :> 112) @@ ("r" :> 114) @@ ("s" :> 115) @@ ("t" :> 116)
     @@ ("u" :> 117) @@ ("x" :> 120) @@ ("y" :> 121)

Min(S) == CHOOSE x \in S : \A y \in S : x <= y

\* The string whose characters are seq.
StrOf(seq) == CHOOSE s \in DOMAIN Text : Text[s] = seq

\* Python's < on two str: the first differing code point decides, a proper
\* prefix is smaller.
LexLess(s, t) ==
    \E i \in 1..(Len(s) + 1) :
        /\ \A j \in 1..(i - 1) : j <= Len(t) /\ s[j] = t[j]
        /\ i <= Len(t)
        /\ (i <= Len(s) => Ord[s[i]] < Ord[t[i]])

StrLess(a, b) == LexLess(Text[a], Text[b])

\* sub in s
Contains(sub, s) ==
    \E i \in 1..(Len(s) - Len(sub) + 1) : SubSeq(s, i, i + Len(sub) - 1) = sub

(***************************************************************************)
(* DataFrame operations of data_processor                                  *)
(***************************************************************************)
\* float NaN: the year, month or period of NaT.
NaN == -3

\* df[c] = F(row) for every row (lines 98-102, 142-146, 225).
Assign(df, c, F(_)) ==
    [cols |-> df.cols \cup {c},
     rows |-> [i \in DOMAIN df.rows |->
                  [x \in df.cols \cup {c} |->
                      IF x = c THEN F(df.rows[i]) ELSE df.rows[i][x]]]]

\* df.drop(columns=cs)
DropCols(df, cs) ==
    [cols |-> df.cols \ cs,
     rows |-> [i \in DOMAIN df.rows |-> [x \in df.cols \ cs |-> df.rows[i][x]]]]

\* The rows of seq at the positions S, in their order.
Pick(seq, S) ==
    [k \in 1..Cardinality(S) |->
        seq[CHOOSE i \in S : Cardinality({j \in S : j < i}) = k - 1]]

\* sort_values (lines 105, 117, 149): rows in the order Less, rows that Less does not tell apart
\* in the order they had.
StableSort(rows, Less(_, _)) ==
    LET n == Len(rows)
        rank(i) == 1 + Cardinality({j \in 1..n :
                        \/ Less(rows[j], rows[i])
                        \/ (~Less(rows[i], rows[j]) /\ j < i)})
    IN  [p \in 1..n |-> rows[CHOOSE i \in 1..n : rank(i) = p]]

\* drop_duplicates(subset=..., keep='first') (lines 108, 155, 304)
DropDuplicates(rows, Key(_)) ==
    Pick(rows, {i \in DOMAIN rows :
                   \A j \in 1..(i - 1) : Key(rows[j]) # Key(rows[i])})

\* Ascending and descending order of numbers and Timestamps in sort_values:
\* NaN and NaT go last either way.
IsNA(v) == v \in {NaN, NaT}
AscLess(a, b) == ~IsNA(a) /\ (IsNA(b) \/ a < b)
DescLess(a, b) == ~IsNA(a) /\ (IsNA(b) \/ a > b)

\* .dt.year and .dt.month of a Timestamp column.
DtYear(d) == IF d = NaT THEN NaN ELSE YearOf(d)
DtMonth(d) == IF d = NaT THEN NaN ELSE MonthOf(d)

\* Mutation of get_bimonth_period: the period is the month.
get_bimonth_period_month(month) == month

\* Lines 32-43
get_bimonth_period(month) ==
    IF month = NaN THEN NaN ELSE (month - 1) \div 2 + 1

PeriodKey(r) == <<r["Mobile"], r["_Year"], r["_Period"]>>

\* Line 105: sort by Mobile, _Year, _Period, Date, all ascending.
GaSortLess(a, b) ==
    \/ StrLess(a["Mobile"], b["Mobile"])
    \/ /\ a["Mobile"] = b["Mobile"]
       /\ \/ AscLess(a["_Year"], b["_Year"])
          \/ /\ a["_Year"] = b["_Year"]
             /\ \/ AscLess(a["_Period"], b["_Period"])
                \/ /\ a["_Period"] = b["_Period"]
                   /\ AscLess(a["Date"], b["Date"])

\* Line 117: sort_values('Date')
DateLess(a, b) == AscLess(a["Date"], b["Date"])

\* Lines 83-117
remove_duplicates_bimonth_ga(df) ==
    IF IsEmpty(df) THEN df
    ELSE
    LET d1 == Assign(df, "Date", LAMBDA r : ToDatetime(r["Date"]))
        d2 == Assign(d1, "_Year", LAMBDA r : DtYear(r["Date"]))
        d3 == Assign(d2, "_Period",
                     LAMBDA r : get_bimonth_period(DtMonth(r["Date"])))
        sorted == StableSort(d3.rows, GaSortLess)
        df_filtered == [cols |-> d3.cols,
                        rows |-> DropDuplicates(sorted, PeriodKey)]
        dropped == DropCols(df_filtered, {"_Year", "_Period"})
    IN  [cols |-> dropped.cols, rows |-> StableSort(dropped.rows, DateLess)]

(***************************************************************************)
(* dedupe_salesforce_by_priority                                           *)
(***************************************************************************)
date_col == "House Shifting Opportunity: Created Date"

\* Mutation of StatusPriority: every status has the same priority.
StatusPriority_flat(status) == 0

\* Line 146 with STATUS_PRIORITY of config.py: a status that is not in the
\* dictionary maps to NaN, which fillna makes 0.
StatusPriority(status) ==
    CASE status = "Open"      -> 1
      [] status = "Prospect"  -> 2
      [] status = "Quoted"    -> 3
      [] status = "Closed"    -> 4
      [] status = "Converted" -> 5
      [] OTHER                -> 0

\* Lines 149-152: Mobile, _Year, _Period ascending, then _Priority and the
\* created date descending.
SfSortLess(a, b) ==
    \/ StrLess(a["Mobile"], b["Mobile"])
    \/ /\ a["Mobile"] = b["Mobile"]
       /\ \/ AscLess(a["_Year"], b["_Year"])
          \/ /\ a["_Year"] = b["_Year"]
             /\ \/ AscLess(a["_Period"], b["_Period"])
                \/ /\ a["_Period"] = b["_Period"]
                   /\ \/ DescLess(a["_Priority"], b["_Priority"])
                      \/ /\ a["_Priority"] = b["_Priority"]
                         /\ DescLess(a[date_col], b[date_col])

\* Lines 120-163
dedupe_salesforce_by_priority(sf_df) ==
    IF IsEmpty(sf_df) THEN sf_df
    ELSE
    LET d1 == Assign(sf_df, date_col, LAMBDA r : ToDatetime(r[date_col]))
        d2 == Assign(d1, "_Year", LAMBDA r : DtYear(r[date_col]))
        d3 == Assign(d2, "_Period",
                     LAMBDA r : get_bimonth_period(DtMonth(r[date_col])))
        d4 == Assign(d3, "_Priority", LAMBDA r : StatusPriority(r["Status"]))
        sorted == StableSort(d4.rows, SfSortLess)
        sf_filtered == [cols |-> d4.cols,
                        rows |-> DropDuplicates(sorted, PeriodKey)]
    IN  DropCols(sf_filtered, {"_Year", "_Period", "_Priority"})

(***************************************************************************)
(* apply_campaign_mapping and calculate_final_source                       *)
(***************************************************************************)
CAMPAIGN_NA_MAPPING ==
    {"(not set)", "(direct)", "(organic)", "(referral)",
     "bangalore", "surat", "chennai", "mumbai", "kopar-khairane",
     "pune", "indore", "default_trucks_fare_estimate", "jaipur",
     "shriramgroup_banner", "default_fare_estimate_booking_flow",
     "default_home_2W", "delhi", "kolkata", "hyderabad",
     "default_two_wheelers_fare_estimate", "default_home_Trucks",
     "Open Targeting Bangalore Sept9th2024", "ahmedabad", "coimbatore",
     "invite_code", "footer-links", "Kochi", "broker_network",
     "header-logo", "geoID15", "santacruz", "vadavalli", "south-delhi",
     "confirmation_instructions_parent", "geoID7", "Nagpur",
     "Referral_v2", "peenya"}

\* Mutation of replace_if_in_list: every value becomes the sentinel.
replace_if_in_list_all(value) == "NA"

\* Lines 179-180
replace_if_in_list(value) ==
    IF value \in CAMPAIGN_NA_MAPPING THEN "NA" ELSE value

\* Lines 166-189
apply_campaign_mapping(df) ==
    LET d1 == IF "First_User_Campaign" \in df.cols
              THEN Assign(df, "First_User_Campaign",
                          LAMBDA r : replace_if_in_list(r["First_User_Campaign"]))
              ELSE df
    IN  IF "Session_Campaign" \in d1.cols
        THEN Assign(d1, "Session_Campaign",
                    LAMBDA r : replace_if_in_list(r["Session_Campaign"]))
        ELSE d1

\* Mutation of BrandIn: the word is looked for in any case of letters.
BrandIn_anycase(session) ==
    \/ Contains(<<"B", "r", "a", "n", "d">>, Text[session])
    \/ Contains(<<"b", "r", "a", "n", "d">>, Text[session])

\* Line 216: 'Brand' in str(session)
BrandIn(session) == Contains(<<"B", "r", "a", "n", "d">>, Text[session])

\* row.get(col, 'NA')
RowGet(df, r, col) == IF col \in df.cols THEN r[col] ELSE "NA"

\* Lines 211-223
get_final_source(first_user, session) ==
    IF first_user = "NA"
    THEN IF BrandIn(session) THEN "FT_Organic"
         ELSE IF session # "NA" THEN session
         ELSE first_user
    ELSE first_user

\* Lines 192-227
calculate_final_source(df) ==
    Assign(df, "Final_Source",
           LAMBDA r : get_final_source(RowGet(df, r, "First_User_Campaign"),
                                       RowGet(df, r, "Session_Campaign")))

(***************************************************************************)
(* extract_mobile_numbers                                                  *)
(***************************************************************************)
IsDigit(c) == c \in {"0", "1", "2", "3", "4", "5", "6", "7", "8", "9"}

\* re.search(r'\d{10}', x): the positions where a match can start.
MatchStarts(x) ==
    {i \in 1..(Len(x) - 9) : \A j \in i..(i + 9) : IsDigit(x[j])}

\* Mutation of SearchGroup: the last match rather than the first.
SearchGroup_last(x) ==
    LET i == CHOOSE m \in MatchStarts(x) : \A n \in MatchStarts(x) : n <= m
    IN  SubSeq(x, i, i + 9)

\* re.search(pattern, x).group(): the leftmost match.
SearchGroup(x) == SubSeq(x, Min(MatchStarts(x)), Min(MatchStarts(x)) + 9)

\* Lines 11-29
extract_mobile_numbers(df, column_name) ==
    Assign(df, "Mobile",
           LAMBDA r : IF MatchStarts(Text[r[column_name]]) # {}
                      THEN StrOf(SearchGroup(Text[r[column_name]]))
                      ELSE NoneStr)

\* df.dropna(subset=[col])
DropNa(df, col) ==
    [cols |-> df.cols, rows |-> SelectSeq(df.rows, LAMBDA r : r[col] # NoneStr)]

(***************************************************************************)
(* map_salesforce_data, map_ne_data, add_month_year_columns                *)
(***************************************************************************)
\* SF_REQUIRED_COLUMNS of config.py (a name cannot start with SF_ here).
SfRequiredColumns == <<date_col, "Mobile", "Status", "Shifting Type">>

\* Python None as an argument.
NoneFrame == [cols |-> {}, rows |-> <<>>, none |-> TRUE]

IsNone(df) == "none" \in DOMAIN df

ValueError(missing) == [ok |-> FALSE, error |-> "ValueError", missing |-> missing]

Ok(df) == [ok |-> TRUE, df |-> df]

\* Mutation of MobileDict: the first row of a Mobile is the one kept.
MobileDict_first(df, col) ==
    [m \in {r["Mobile"] : r \in Range(df.rows)} |->
        LET first == CHOOSE i \in DOMAIN df.rows :
                        /\ df.rows[i]["Mobile"] = m
                        /\ \A j \in DOMAIN df.rows :
                              df.rows[j]["Mobile"] = m => i <= j
        IN  df.rows[first][col]]

\* df.set_index('Mobile')[col].to_dict(): the last row of a Mobile is the
\* one the dictionary keeps.
MobileDict(df, col) ==
    [m \in {r["Mobile"] : r \in Range(df.rows)} |->
        LET last == CHOOSE i \in DOMAIN df.rows :
                       /\ df.rows[i]["Mobile"] = m
                       /\ \A j \in DOMAIN df.rows :
                             df.rows[j]["Mobile"] = m => j <= i
        IN  df.rows[last][col]]

\* Mutation of MapFillna: a lead without an entry is left without a value.
MapFillna_nofill(d, k, v) ==
    IF k \in DOMAIN d THEN d[k] ELSE NoneStr

\* Series.map(d).fillna(v)
MapFillna(d, k, v) ==
    IF k \in DOMAIN d /\ d[k] # NoneStr THEN d[k] ELSE v

NotFound == "Not Found"

\* Mutation of MissingCols: only the first missing column is named.
MissingCols_first(sf_df) ==
    LET all == SelectSeq(SfRequiredColumns, LAMBDA col : col \notin sf_df.cols)
    IN  IF all = <<>> THEN all ELSE <<Head(all)>>

\* Line 251
MissingCols(sf_df) ==
    SelectSeq(SfRequiredColumns, LAMBDA col : col \notin sf_df.cols)

\* Mutation of map_salesforce_data: an inner join on the deduplicated CRM
\* records instead of a lookup, so a lead without a record is dropped.
map_salesforce_data_join(ga_df, sf_df) ==
    IF IsNone(sf_df) \/ IsEmpty(sf_df)
    THEN Ok(Assign(Assign(ga_df, "Status", LAMBDA r : NotFound),
                   "Shifting_Type", LAMBDA r : NotFound))
    ELSE
    LET missing_cols == MissingCols(sf_df)
    IN  IF missing_cols # <<>> THEN ValueError(missing_cols)
        ELSE
        LET sf_deduped == dedupe_salesforce_by_priority(sf_df)
            status_dict == MobileDict(sf_deduped, "Status")
            shifting_dict == MobileDict(sf_deduped, "Shifting Type")
            matched == [cols |-> ga_df.cols,
                        rows |-> SelectSeq(ga_df.rows,
                                    LAMBDA r : r["Mobile"] \in DOMAIN status_dict)]
            g1 == Assign(matched, "Status",
                         LAMBDA r : MapFillna(status_dict, r["Mobile"], NotFound))
        IN  Ok(Assign(g1, "Shifting_Type",
                      LAMBDA r : MapFillna(shifting_dict, r["Mobile"], NotFound)))

\* Lines 230-272
map_salesforce_data(ga_df, sf_df) ==
    IF IsNone(sf_df) \/ IsEmpty(sf_df)
    THEN Ok(Assign(Assign(ga_df, "Status", LAMBDA r : NotFound),
                   "Shifting_Type", LAMBDA r : NotFound))
    ELSE
    LET missing_cols == MissingCols(sf_df)
    IN  IF missing_cols # <<>> THEN ValueError(missing_cols)
        ELSE
        LET sf == Assign(sf_df, "Mobile", LAMBDA r : AsStr(r["Mobile"]))
            ga == Assign(ga_df, "Mobile", LAMBDA r : AsStr(r["Mobile"]))
            sf_deduped == dedupe_salesforce_by_priority(sf)
            status_dict == MobileDict(sf_deduped, "Status")
            shifting_dict == MobileDict(sf_deduped, "Shifting Type")
            g1 == Assign(ga, "Status",
                         LAMBDA r : MapFillna(status_dict, r["Mobile"], NotFound))
        IN  Ok(Assign(g1, "Shifting_Type",
                      LAMBDA r : MapFillna(shifting_dict, r["Mobile"], NotFound)))

\* Line 297
date_patterns ==
    { <<"d", "a", "t", "e">>, <<"D", "a", "t", "e">>, <<"D", "A", "T", "E">>,
      <<"c", "r", "e", "a", "t", "e", "d">>,
      <<"C", "r", "e", "a", "t", "e", "d">>,
      <<"C", "R", "E", "A", "T", "E", "D">> }

\* Lines 298-301
ColsToMap(ne_df) ==
    {col \in ne_df.cols :
        col # "Mobile" /\ ~(\E pat \in date_patterns : Contains(pat, Text[col]))}

\* Mutation of MergedName: a colliding column keeps its name and overwrites.
MergedName_overwrite(col, left_cols) == col

\* The name merge(..., suffixes=('', '_NE')) gives a column of the right.
MergedName(col, left_cols) ==
    IF col \in left_cols THEN col \o "_NE" ELSE col

\* Line 307: mapped_df.merge(ne_lookup, on='Mobile', how='left',
\* suffixes=('', '_NE')) with one row a Mobile in ne_lookup.
MergeLeft(left, right, right_cols) ==
    LET added == {MergedName(c, left.cols) : c \in right_cols}
        src(n) == CHOOSE c \in right_cols : MergedName(c, left.cols) = n
        match(r) == {i \in DOMAIN right.rows :
                        right.rows[i]["Mobile"] = r["Mobile"]}
    IN  [cols |-> left.cols \cup added,
         rows |-> [i \in DOMAIN left.rows |->
            [x \in left.cols \cup added |->
                IF x \in added
                THEN IF match(left.rows[i]) = {} THEN NoneStr
                     ELSE right.rows[Min(match(left.rows[i]))][src(x)]
                ELSE left.rows[i][x]]]]

\* Lines 275-309
map_ne_data(mapped_df, ne_df) ==
    IF IsNone(ne_df) \/ IsEmpty(ne_df) THEN mapped_df
    ELSE
    LET ne == Assign(ne_df, "Mobile", LAMBDA r : AsStr(r["Mobile"]))
        cols_to_map == ColsToMap(ne)
        ne_lookup ==
            [cols |-> {"Mobile"} \cup cols_to_map,
             rows |-> DropDuplicates(
                          DropCols(ne, ne.cols \ ({"Mobile"} \cup cols_to_map)).rows,
                          LAMBDA r : r["Mobile"])]
    IN  MergeLeft(mapped_df, ne_lookup, cols_to_map)

\* Lines 312-326
add_month_year_columns(df) ==
    LET d1 == Assign(df, "Date", LAMBDA r : ToDatetime(r["Date"]))
        d2 == Assign(d1, "Month", LAMBDA r : DtMonth(r["Date"]))
    IN  Assign(d2, "Year", LAMBDA r : DtYear(r["Date"]))

(***************************************************************************)
(* process_ga_data                                                         *)
(***************************************************************************)
GaCols == {"PnM_Parameter", "Date", "First_User_Campaign", "Session_Campaign"}

\* Lines 344-350: pd.DataFrame(ga_data), the Mobile column, and the rows
\* with a Mobile.
Canonical(ga_data) ==
    DropNa(extract_mobile_numbers([cols |-> GaCols, rows |-> ga_data],
                                  "PnM_Parameter"),
           "Mobile")

\* Lines 329-367.  The field canonical is the local df after line 350.
process_ga_data(ga_data, sf_df) ==
    IF ga_data = <<>> THEN Ok(EmptyFrame) @@ [canonical |-> EmptyFrame]
    ELSE
    LET df1 == Canonical(ga_data)
        df2 == apply_campaign_mapping(df1)
        df3 == calculate_final_source(df2)
        df4 == remove_duplicates_bimonth_ga(df3)
        m == map_salesforce_data(df4, sf_df)
    IN  IF ~m.ok THEN m
        ELSE Ok(add_month_year_columns(m.df)) @@ [canonical |-> df1]

(***************************************************************************)
(* get_bimonth_date_range.  A date, and the text YYYY-MM-DD that strptime  *)
(* reads and strftime writes, is the record of its year, month and day.    *)
(***************************************************************************)
MkDate(y, m, d) == [year |-> y, month |-> m, day |-> d]

IsLeap(y) == (y % 4 = 0 /\ y % 100 # 0) \/ y % 400 = 0

\* Mutation of MonthRange: February has 28 days every year.
MonthRange_noleap(y, m) ==
    IF m = 2 THEN 28 ELSE IF m \in {4, 6, 9, 11} THEN 30 ELSE 31

\* calendar.monthrange(year, month)[1]
MonthRange(y, m) ==
    IF m = 2 THEN (IF IsLeap(y) THEN 29 ELSE 28)
    ELSE IF m \in {4, 6, 9, 11} THEN 30 ELSE 31

\* Lines 46-80
get_bimonth_date_range(start_date, end_date) ==
    LET start_period == get_bimonth_period(start_date.month)
        start_bucket_first_month == (start_period - 1) * 2 + 1
        expanded_start == MkDate(start_date.year, start_bucket_first_month, 1)
        end_period == get_bimonth_period(end_date.month)
        end_bucket_last_month == end_period * 2
        last_day == MonthRange(end_date.year, end_bucket_last_month)
        expanded_end == MkDate(end_date.year, end_bucket_last_month, last_day)
    IN  <<expanded_start, expanded_end>>

(***************************************************************************)
(* The bare data_processor calls: arguments, then the call.                *)
(***************************************************************************)
Mobile1 == "9000000001"
Mobile2 == "9000000002"
Mobile3 == "9190000000"

\* Canonical leads, as process_ga_data hands them to the deduplicator.
GaRow(mobile, date, source) ==
    [Mobile |-> mobile, Date |-> date, Final_Source |-> source]

GaDedupFrames ==
    LET GaDedupRows ==
            { GaRow(Mobile1, 240105, "NA"),
              GaRow(Mobile1, 240105, "Winter22"),
              GaRow(Mobile1, 240210, "Winter22"),
              GaRow(Mobile1, 240315, "NA"),
              GaRow(Mobile1, 250101, "NA"),
              GaRow(Mobile2, 240105, "NA") }
    IN
    {[cols |-> {"Mobile", "Date", "Final_Source"}, rows |-> rows] :
        rows \in SeqsUpTo(GaDedupRows, MaxRecords)}

\* CRM records, as pd.read_csv hands them over; a created date that cannot
\* be read as a date is None.
SfCols == {date_col, "Mobile", "Status", "Shifting Type"}

SfRow(mobile, created, status, shifting) ==
    (date_col :> created) @@
    [Mobile |-> mobile, Status |-> status] @@ ("Shifting Type" :> shifting)

SfDedupFrames ==
    LET SfDedupRows ==
            { SfRow(Mobile1, 240105, "Open", "Local"),
              SfRow(Mobile1, 240220, "Open", "Intercity"),
              SfRow(Mobile1, 240210, "Converted", "Local"),
              SfRow(Mobile1, 240315, "Quoted", "Local"),
              SfRow(Mobile1, 250101, "Closed", "Local"),
              SfRow(Mobile1, NoneInt, "Prospect", "Local"),
              SfRow(Mobile2, 240105, "Lost", "Local"),
              SfRow(Mobile2, 240110, "Open", "Intercity") }
    IN
    {[cols |-> SfCols, rows |-> rows] : rows \in SeqsUpTo(SfDedupRows, MaxRecords)}

\* Campaign names of analytics rows.
Campaigns ==
    {"NA", "Summer Brand Promo", "Generic Sale", "Winter22", "Anything",
     "brand sale", "(not set)", "bangalore", "Bangalore"}

CampaignFrames ==
    {[cols |-> {"First_User_Campaign", "Session_Campaign"}, rows |-> rows] :
        rows \in SeqsUpTo([First_User_Campaign : Campaigns,
                           Session_Campaign : Campaigns], MaxCampaignRows)}

\* Rows of GA4Client.fetch_data.
RawRow(token, date, first_user, session) ==
    [PnM_Parameter |-> token, Date |-> date,
     First_User_Campaign |-> first_user, Session_Campaign |-> session]

GaData ==
    LET RawRows ==
            { RawRow("pnm_9000000001", 240105, "(not set)", "Summer Brand Promo"),
              RawRow("90000 00001", 240105, "Winter22", "NA"),
              RawRow("919000000001x9000000002", 240210, "NA", "Generic Sale"),
              RawRow("a9000000002b9000000001", 240105, "Winter22", "Anything"),
              RawRow("900000000", 240315, "NA", "NA"),
              RawRow("9000000002", 240210, "bangalore", "bangalore") }
    IN
    SeqsUpTo(RawRows, MaxMapRows)

\* CRM frames of the mapping calls.
SfMapFrames ==
    LET SfMapRows ==
            { SfRow(Mobile1, 240105, "Open", "Local"),
              SfRow(Mobile1, 240210, "Converted", "Intercity"),
              SfRow(Mobile1, 240320, "Open", "Office"),
              SfRow(Mobile2, 240105, NoneStr, "Local"),
              SfRow(Mobile2, 240315, "Lost", "Local"),
              SfRow(Mobile2, 240520, NoneStr, "Office") }
    IN
    {[cols |-> SfCols, rows |-> rows] : rows \in SeqsUpTo(SfMapRows, MaxMapRows)}

\* A CRM frame with one record that lacks some of its columns.
SfLackingFrames ==
    LET SfWide ==
            [cols |-> SfCols \cup {"Owner"},
             rows |-> << SfRow(Mobile1, 240105, "Open", "Local") @@ [Owner |-> "a"] >>]
    IN
    {DropCols(SfWide, S) : S \in (SUBSET SfCols) \ {{}}}

SfInputs == {NoneFrame} \cup SfMapFrames \cup SfLackingFrames

\* Canonical leads of the mapping calls.
GaMapFrames ==
    LET GaMapRows ==
            { GaRow(Mobile1, 240105, "NA"),
              GaRow(Mobile2, 240105, "Winter22"),
              GaRow(Mobile3, 240210, "NA") }
    IN
    {[cols |-> {"Mobile", "Date", "Final_Source"}, rows |-> rows] :
        rows \in SeqsUpTo(GaMapRows, MaxMapRows)}

\* Mapped records handed to map_ne_data.
MappedRow(mobile, date, status) ==
    [Mobile |-> mobile, Date |-> date, Status |-> status]

MappedFrames ==
    LET MappedRows ==
            { MappedRow(Mobile1, 240105, "Open"),
              MappedRow(Mobile1, 240315, "Converted"),
              MappedRow(Mobile2, 240105, "Not Found") }
    IN
    {[cols |-> {"Mobile", "Date", "Status"}, rows |-> rows] :
        rows \in SeqsUpTo(MappedRows, MaxMapRows)}

\* Auxiliary records; dashboard lines 357-359 name the lead column Mobile.
NeCols == {"Mobile", "City", "Status", "Created On", "Lead Date"}

NeRow(mobile, city, status, created) ==
    [Mobile |-> mobile, City |-> city, Status |-> status] @@
    ("Created On" :> created) @@ ("Lead Date" :> created)

NeInputs ==
    LET NeRows ==
            { NeRow(Mobile1, "Pune", "Won", 240101),
              NeRow(Mobile1, "Delhi", "Lost", 240102),
              NeRow(Mobile3, "Pune", "Won", 240103) }
    IN
    {NoneFrame}
    \cup {[cols |-> NeCols, rows |-> rows] : rows \in SeqsUpTo(NeRows, MaxMapRows)}
    \cup {DropCols([cols |-> NeCols, rows |-> rows], {"Status", "Lead Date"}) :
             rows \in SeqsUpTo(NeRows, MaxMapRows)}

\* Reporting windows: the dashboard refuses start_date > end_date.
Dates ==
    LET Years ==
            {2023, 2024, 2100}
    IN
    {MkDate(y, m, d) : y \in Years, m \in 1..12, d \in {1, 15, 20}}
    \cup {MkDate(y, m, MonthRange(y, m)) : y \in Years, m \in 1..12}

DateLE(a, b) ==
    \/ a.year < b.year
    \/ a.year = b.year /\ a.month < b.month
    \/ a.year = b.year /\ a.month = b.month /\ a.day <= b.day

(***************************************************************************)
(* The Fetch & Process button of the dashboard                             *)
(***************************************************************************)
\* Mutation of RequestedRange: the reporting window itself is requested.
RequestedRange_window(start_date, end_date) == <<start_date, end_date>>

\* Dashboard lines 340-343: the range handed to fetch_data.
RequestedRange(start_date, end_date) ==
    get_bimonth_date_range(start_date, end_date)

\* GA4Client.fetch_data: the report of DateRange(start_date, end_date), the
\* rows of the property dated within the range.
fetch_data(rows, range) ==
    LET Day(d) == (d.year - 2000) * 10000 + d.month * 100 + d.day
    IN  SelectSeq(rows, LAMBDA r : /\ Day(range[1]) <= r["Date"]
                                   /\ r["Date"] <= Day(range[2]))

\* Dashboard lines 321-372.  requested lists the ranges asked of the
\* analytics source; the other fields are those of st.session_state after
\* the handler, shown is its message.
fetch_and_process(start_date, end_date, sf_file, source, ne_file) ==
    LET Left(requested, shown) ==
            [requested |-> requested, ga_sf_data |-> NoneFrame,
             ga_sf_ne_data |-> NoneFrame, data_loaded |-> FALSE,
             shown |-> shown]
        Renamed(df) ==
            IF "LEAD_MOBILE" \in df.cols /\ "Mobile" \notin df.cols
            THEN [cols |-> (df.cols \ {"LEAD_MOBILE"}) \cup {"Mobile"},
                  rows |-> [i \in DOMAIN df.rows |->
                     [c \in (df.cols \ {"LEAD_MOBILE"}) \cup {"Mobile"} |->
                         IF c = "Mobile" THEN df.rows[i]["LEAD_MOBILE"]
                         ELSE df.rows[i][c]]]]
            ELSE df
        range == RequestedRange(start_date, end_date)
        ga_data == fetch_data(source.rows, range)
        p == process_ga_data(ga_data, sf_file)
        ne_df == Renamed(ne_file)
    IN  IF IsNone(sf_file)
        THEN Left(<<>>, "Please upload Salesforce CSV file first!")
        ELSE IF ~DateLE(start_date, end_date)
        THEN Left(<<>>, "End date must be after start date!")
        ELSE IF MissingCols(sf_file) # <<>>
        THEN Left(<<>>, "Missing required columns in Salesforce file")
        ELSE IF source.raised
        THEN Left(<<range>>, "Error processing data")
        ELSE IF ga_data = <<>>
        THEN Left(<<range>>, "No GA4 data found for the selected date range.")
        ELSE IF ~p.ok
        THEN Left(<<range>>, "Error processing data")
        ELSE [requested |-> <<range>>,
              ga_sf_data |-> p.df,
              ga_sf_ne_data |->
                  IF ~IsNone(ne_file) /\ "Mobile" \in ne_df.cols
                  THEN map_ne_data(p.df, ne_df) ELSE NoneFrame,
              data_loaded |-> TRUE,
              shown |-> "Data processed successfully!"]

Calls ==
    {[fn |-> "remove_duplicates_bimonth_ga", df |-> df] : df \in GaDedupFrames}
    \cup
    {[fn |-> "dedupe_salesforce_by_priority", sf_df |-> df] : df \in SfDedupFrames}
    \cup
    {[fn |-> "apply_campaign_mapping", df |-> df] : df \in CampaignFrames}
    \cup
    {[fn |-> "calculate_final_source", df |-> df] : df \in CampaignFrames}
    \cup
    {[fn |-> "process_ga_data", ga_data |-> g, sf_df |-> sf] :
        g \in GaData, sf \in SfInputs}
    \cup
    {[fn |-> "map_salesforce_data", ga_df |-> g, sf_df |-> sf] :
        g \in GaMapFrames, sf \in SfInputs}
    \cup
    {[fn |-> "map_ne_data", mapped_df |-> m, ne_df |-> ne] :
        m \in MappedFrames, ne \in NeInputs}
    \cup
    {[fn |-> "get_bimonth_date_range", start_date |-> w[1], end_date |-> w[2]] :
        w \in {x \in Dates \X Dates : DateLE(x[1], x[2])}}
    \cup
    LET Days == {d \in Dates : d.year \in {2023, 2024} /\ d.day \in {1, 20}}
        SfFiles == {NoneFrame,
                    [cols |-> SfCols,
                     rows |-> << SfRow(Mobile1, 240105, "Open", "Local"),
                                 SfRow(Mobile1, 240210, "Converted", "Intercity") >>],
                    [cols |-> SfCols \ {"Status"},
                     rows |-> << [c \in SfCols \ {"Status"} |->
                                    SfRow(Mobile1, 240105, "Open", "Local")[c]] >>]}
        Sources == {[raised |-> TRUE, rows |-> <<>>],
                    [raised |-> FALSE, rows |-> <<>>],
                    [raised |-> FALSE,
                     rows |-> << RawRow("pnm_9000000001", 240105, "(not set)",
                                        "Summer Brand Promo"),
                                 RawRow("9000000002", 240210, "bangalore",
                                        "bangalore") >>]}
        NeFiles == {NoneFrame,
                    [cols |-> {"LEAD_MOBILE", "City"},
                     rows |-> << [LEAD_MOBILE |-> Mobile1, City |-> "Pune"] >>],
                    [cols |-> {"City"}, rows |-> << [City |-> "Pune"] >>]}
    IN
    {[fn |-> "fetch_and_process", start_date |-> w[1], end_date |-> w[2],
      sf_file |-> sf, source |-> src, ne_file |-> ne] :
        w \in Days \X Days, sf \in SfFiles, src \in Sources, ne \in NeFiles}
    \cup
    LET Prepared == {Frame(<<>>), Frame(<<RowA>>), Frame(<<RowB, RowC>>)}
    IN
    {[fn |-> "merge_with_existing_data", new |-> n, existing |-> e] :
        n \in Prepared, e \in Prepared \cup {EmptyFrame}}

InitProcess ==
    /\ NoMerge
    /\ NoUploads
    /\ NoApp
    /\ call \in Calls
    /\ result = NoCall
    /\ ppc = "call"

Return(fn, value) ==
    /\ ppc = "call"
    /\ call.fn = fn
    /\ result' = value
    /\ ppc' = "returned"
    /\ UNCHANGED <<call, mergeVars, uploadVars, appVars>>

RemoveDuplicatesGa ==
    Return("remove_duplicates_bimonth_ga",
           Ok(remove_duplicates_bimonth_ga(call.df)))

DedupeSalesforce ==
    Return("dedupe_salesforce_by_priority",
           Ok(dedupe_salesforce_by_priority(call.sf_df)))

ApplyCampaignMapping ==
    Return("apply_campaign_mapping", Ok(apply_campaign_mapping(call.df)))

CalculateFinalSource ==
    Return("calculate_final_source", Ok(calculate_final_source(call.df)))

ProcessGaData ==
    Return("process_ga_data", process_ga_data(call.ga_data, call.sf_df))

MapSalesforceData ==
    Return("map_salesforce_data", map_salesforce_data(call.ga_df, call.sf_df))

MapNeData ==
    Return("map_ne_data", Ok(map_ne_data(call.mapped_df, call.ne_df)))

GetBimonthDateRange ==
    Return("get_bimonth_date_range",
           [ok |-> TRUE,
            range |-> get_bimonth_date_range(call.start_date, call.end_date)])

FetchAndProcess ==
    Return("fetch_and_process",
           fetch_and_process(call.start_date, call.end_date, call.sf_file,
                             call.source, call.ne_file))

\* merge_with_existing_data as the uploads call it: new records with the
\* columns prepare_upload_df gives them, existing records as
\* get_existing_data returns them.
MergeWithExistingData ==
    Return("merge_with_existing_data",
           merge_with_existing_data(call.new, call.existing))

NextProcess ==
    \/ RemoveDuplicatesGa
    \/ DedupeSalesforce
    \/ ApplyCampaignMapping
    \/ CalculateFinalSource
    \/ ProcessGaData
    \/ MapSalesforceData
    \/ MapNeData
    \/ GetBimonthDateRange
    \/ FetchAndProcess
    \/ MergeWithExistingData

SpecProcess == InitProcess /\ [][NextProcess]_vars

(***************************************************************************)
(* The upload buttons of the dashboard                                     *)
(***************************************************************************)
\* Lines 366, 369, 441 and 444 of bigquery_manager: the tuple an upload
\* returns, each value with its Python type.
UploadReturn(r) ==
    << [type |-> "bool", value |-> r.success],
       [type |-> "dict", value |-> r.stats],
       [type |-> "str",
        value |-> IF r.success THEN "Successfully uploaded"
                  ELSE "Error uploading to BigQuery"] >>

\* Dashboard lines 497-503 and 543-549: the tuple is unpacked into success,
\* status_updates and message; status_updates > 0 is defined for a number
\* and raises TypeError for a dict.
upload_button(ret) ==
    LET success == ret[1]
        status_updates == ret[2]
        message == ret[3]
    IN  IF success.value
        THEN IF status_updates.type = "int"
             THEN [raised |-> "none",
                   shown |-> <<message.value>>,
                   reported |-> IF status_updates.value > 0
                                THEN <<status_updates.value>> ELSE <<>>]
             ELSE [raised |-> "TypeError",
                   shown |-> <<message.value>>,
                   reported |-> <<>>]
        ELSE [raised |-> "none", shown |-> <<message.value>>, reported |-> <<>>]

(***************************************************************************)
(* The script runs of the dashboard session                                *)
(***************************************************************************)
InitApp ==
    /\ NoMerge
    /\ NoProcess
    /\ NoUploads
    /\ secrets \in {SecretsWith(b) : b \in BlockedLists}
    /\ session_state = FreshSession
    /\ page = Page("login", <<>>, {})

\* The script of the session is not in the middle of an upload.
Idle == pc[AppSession] # "load"

\* The page shows the dashboard body and the run that handles the click
\* passes the gate again.
InBody ==
    /\ Idle
    /\ page.view = "body"
    /\ Gate(session_state, secrets.auth) = "body"

\* show_login_page, auth.py lines 101-134: Google returns the email of the
\* account; a granted email is stored and the script runs again.
OAuthCallback(email) ==
    /\ Idle
    /\ page.view = "login"
    /\ ~session_state.authenticated
    /\ LET blocked == Lower(email) \in
                         {Lower(e) : e \in secrets.auth.blocked_emails}
           granted == email # <<>> /\ ~blocked
                      /\ check_email_access(email, secrets.auth)
       IN  session_state' =
              IF granted
              THEN [session_state EXCEPT !.authenticated = TRUE,
                                         !.user_email = email]
              ELSE session_state
    /\ page' = Page(Gate(session_state', secrets.auth), <<>>, {})
    /\ UNCHANGED <<secrets, mergeVars, uploadVars, processVars>>

\* A script run that handles no event of the body: a page load, Cancel, a
\* download, or a click that the gate turns down.
Visit ==
    /\ Idle
    /\ page' = Page(Gate(session_state, secrets.auth), <<>>, {})
    /\ UNCHANGED <<secrets, session_state, mergeVars, uploadVars, processVars>>

\* Authenticator.logout, auth.py lines 182-186
Logout ==
    /\ InBody
    /\ session_state' = [session_state EXCEPT !.authenticated = FALSE,
                                              !.user_email = <<>>]
    /\ page' = Page(Gate(session_state', secrets.auth), <<>>, {})
    /\ UNCHANGED <<secrets, mergeVars, uploadVars, processVars>>

\* app.py lines 506-512 and 552-558: the Reset BQ Table button opens the
\* dialog of its table.
ResetButton(t) ==
    /\ InBody
    /\ session_state' = [session_state EXCEPT !.show_reset[t] = TRUE]
    /\ page' = Page("body", <<>>, {})
    /\ UNCHANGED <<secrets, mergeVars, uploadVars, processVars>>

\* app.py lines 215-243: Confirm Reset of the dialog of table t, which the
\* page shows when the dialog is open and not locked.
ConfirmReset(t, password, outcome) ==
    /\ InBody
    /\ session_state.show_reset[t]
    /\ ~LockedOut(session_state.reset_attempts[t])
    /\ LET h == handle_reset_with_password(
                    session_state.reset_attempts[t], TRUE, password,
                    secrets.security.reset_password)
       IN  /\ session_state' =
                 [session_state EXCEPT !.reset_attempts[t] = h.attempts]
           /\ table' = IF h.reset
                       THEN [table EXCEPT ![t] = reset_table(table[t], outcome)]
                       ELSE table
           /\ page' = Page("body",
                           <<[table |-> t, password |-> password]>>,
                           IF h.reset THEN {t} ELSE {})
    /\ UNCHANGED <<secrets, ver, last_load, pc, run, nruns, mergeVars,
                   processVars>>

\* app.py lines 495-497 and 541-543: the Upload to BigQuery buttons.
UploadButton(t, df) ==
    /\ InBody
    /\ UploadRead(AppSession, t, df)

\* secrets.toml is edited: Authenticator.__init__ (auth.py lines 15-17)
\* reads the lists again at every run.
EditSecrets(blocked_emails) ==
    /\ secrets' = SecretsWith(blocked_emails)
    /\ secrets' # secrets
    /\ UNCHANGED <<session_state, page, mergeVars, uploadVars, processVars>>

NextApp ==
    \/ \E email \in {<<>>, <<"a", "@", "x">>, <<"B", "@", "Y">>,
                     <<"b", "@", "x">>, <<"b", "@", "z">>} :
          OAuthCallback(email)
    \/ Visit
    \/ Logout
    \/ \E t \in TableNames : ResetButton(t)
    \/ \E t \in TableNames, password \in {"secret", "guess"},
          outcome \in {"no client", "dropped", "reset"} :
          ConfirmReset(t, password, outcome)
    \/ \E df \in {Frame(<<RowA>>), Frame(<<RowB, RowC>>)} :
          UploadButton(BQ_TABLE_GA_SF, df)
    \/ UploadButton(BQ_TABLE_GA_SF_NE, Frame(<<RowB>>))
    \/ MergeAndLoad(AppSession)
    \/ \E b \in BlockedLists : EditSecrets(b)

SpecApp == InitApp /\ [][NextApp]_vars


(***************************************************************************)
(* Vocabulary of the properties                                            *)
(***************************************************************************)
\* Composite key (lead-identifier, month, year) of a record.
CKey(r) == <<r["Mobile"], r["Month"], r["Year"]>>

CKeys(df) == {CKey(r) : r \in Range(df.rows)}

\* Rows of a frame that carry a key, as positions.
RowsOfKey(df, k) == {i \in DOMAIN df.rows : CKey(df.rows[i]) = k}

\* Number of times a row occurs in a frame.
Copies(df, r) == Cardinality({i \in DOMAIN df.rows : df.rows[i] = r})

\* Two frames hold the same rows, each the same number of times.
SameRows(a, b) ==
    /\ Range(a.rows) = Range(b.rows)
    /\ \A r \in Range(a.rows) : Copies(a, r) = Copies(b, r)

\* The row that stands for a key in a frame: its only row, and its last
\* row when the frame repeats the key.
TheRow(df, k) ==
    df.rows[CHOOSE i \in RowsOfKey(df, k) : \A j \in RowsOfKey(df, k) : j <= i]

MergeReturned == mpc = "returned" /\ merge_out.ok

(***************************************************************************)
(* C1 -- Merge non-destructive: every existing row whose composite key     *)
(* occurs in no new row is in the merge output with all its field values   *)
(* unchanged.                                                              *)
(***************************************************************************)
C1_MergeNonDestructive ==
    mpc = "returned" =>
        /\ merge_out.ok
        /\ \A r \in Range(existing_df.rows) :
              CKey(r) \notin CKeys(new_df) =>
                  Copies(merge_out.merged_df, r) >= Copies(existing_df, r)

C1_Witness ==
    /\ MergeReturned
    /\ new_df.rows # <<>>
    /\ \E r \in Range(existing_df.rows) :
          /\ CKey(r) \notin CKeys(new_df)
          /\ Copies(merge_out.merged_df, r) = 1
    /\ CKeys(existing_df) \cap CKeys(new_df) # {}

C3_StatusUpdatesCount ==
    mpc = "returned" =>
        /\ merge_out.ok
        /\ merge_out.status_updates_count =
              Cardinality({k \in CKeys(new_df) \cap CKeys(existing_df) :
                  /\ TheRow(new_df, k)["Date"] >= TheRow(existing_df, k)["Date"]
                  /\ TheRow(new_df, k)["Status"] # TheRow(existing_df, k)["Status"]})

C3_Witness ==
    /\ MergeReturned
    /\ existing_df.rows = <<MkRow("9000000001", 240101, "NA", "Open")>>
    /\ new_df.rows = <<MkRow("9000000001", 240105, "Winter22", "Converted")>>
    /\ merge_out.merged_df.rows = new_df.rows
    /\ merge_out.status_updates_count = 1

(***************************************************************************)
(* C4 -- Merge idempotence: merging a record set R (the empty one too)     *)
(* against itself returns status_updates_count = 0, new_records_count = 0  *)
(* and the rows of R, each as many times as R holds it.                    *)
(***************************************************************************)
C4_MergeIdempotent ==
    (mpc = "returned" /\ new_df = existing_df) =>
        /\ merge_out.ok
        /\ merge_out.status_updates_count = 0
        /\ merge_out.new_records_count = 0
        /\ SameRows(merge_out.merged_df, new_df)
        /\ \A k \in CKeys(new_df) :
              Cardinality(RowsOfKey(merge_out.merged_df, k))
                  = Cardinality(RowsOfKey(new_df, k))

C4_Witness ==
    /\ MergeReturned
    /\ new_df = existing_df
    /\ Cardinality(CKeys(new_df)) = 2
    /\ SameRows(merge_out.merged_df, new_df)

(***************************************************************************)
(* C8 -- Degenerate merge: with no existing rows the merge returns         *)
(* new_records unchanged, new_records_count = its number of rows and       *)
(* status_updates_count = 0.                                               *)
(***************************************************************************)
C8_DegenerateMerge ==
    (mpc = "returned" /\ existing_df.rows = <<>>) =>
        /\ merge_out.ok
        /\ merge_out.merged_df = new_df
        /\ merge_out.new_records_count = Len(new_df.rows)
        /\ merge_out.status_updates_count = 0

C8_Witness ==
    /\ MergeReturned
    /\ existing_df.rows = <<>>
    /\ Len(new_df.rows) = 2
    /\ merge_out.new_records_count = 2
    /\ merge_out.merged_df = new_df

(***************************************************************************)
(* C9 -- New-only keys: every new row whose composite key occurs in no     *)
(* existing row is in the output unchanged, and new_records_count is the   *)
(* number of such rows, whether existing_records is empty or not.          *)
(***************************************************************************)
C9_NewOnlyRows ==
    mpc = "returned" =>
        /\ merge_out.ok
        /\ \A r \in Range(new_df.rows) :
              CKey(r) \notin CKeys(existing_df) =>
                  Copies(merge_out.merged_df, r) >= Copies(new_df, r)
        /\ merge_out.new_records_count =
              Cardinality({i \in DOMAIN new_df.rows :
                              CKey(new_df.rows[i]) \notin CKeys(existing_df)})

(***************************************************************************)
(* Vocabulary of the properties of upload runs                             *)
(***************************************************************************)
Done(s) == pc[s] = "done"

\* Composite keys of the rows a table holds.
TKeys(tab) == {CKey(r) : r \in BagToSet(tab.rows)}

\* The run read the whole table, and no other writer came between its read
\* and its load.
ReadThenLoaded(r) ==
    r.did_read /\ ~r.read_failed /\ r.load_ver = r.read_ver

\* The merge of a record set into a table, one row a key on each side:
\* the rows of either side that the other side does not beat.
ExpectedRows(n, tab) ==
    {r \in Range(n.rows) :
        \A e \in BagToSet(tab.rows) : CKey(e) = CKey(r) => r["Date"] >= e["Date"]}
    \cup
    {e \in BagToSet(tab.rows) :
        \A r \in Range(n.rows) : CKey(r) = CKey(e) => e["Date"] > r["Date"]}

(***************************************************************************)
(* C5 -- Repeated runs are idempotent: an upload of the computed record    *)
(* set N that reads the whole table right after an upload of the same N    *)
(* has replaced it leaves the table as that upload left it, and reports    *)
(* new_records = 0 and status_updates = 0.                                 *)
(***************************************************************************)
C5_RepeatedRunIdempotent ==
    \A s \in Sessions :
        ( /\ Done(s)
          /\ ReadThenLoaded(run[s])
          /\ ~run[s].load_failed
          /\ run[s].read_load.df = run[s].df
          /\ run[s].read_load.ver = run[s].read_ver ) =>
        /\ run[s].success
        /\ run[s].after = run[s].read_table
        /\ run[s].stats.new_records = 0
        /\ run[s].stats.status_updates = 0

C5_Witness ==
    \E s \in Sessions :
        /\ Done(s) /\ run[s].success
        /\ run[s].df = Frame(<<RowB>>)
        /\ ReadThenLoaded(run[s])
        /\ run[s].read_load.df = run[s].df
        /\ run[s].read_load.ver = run[s].read_ver
        /\ run[s].after = Stored(Frame(<<RowB, RowC>>))

(***************************************************************************)
(* C6 -- Failure atomicity: a run whose read of the table fails, or whose  *)
(* replacement write fails, reports a failure, and the table holds the     *)
(* rows it held before.                                                    *)
(***************************************************************************)
C6_FailureAtomicity ==
    \A s \in Sessions :
        (Done(s) /\ (run[s].read_failed \/ run[s].load_failed)) =>
            /\ ~run[s].success
            /\ run[s].after = run[s].before

(***************************************************************************)
(* C7 -- Missing composite-key fields are fatal: with a non-empty table,   *)
(* an upload (GA-SF or GA-SF-NE) whose records, or whose persisted rows,   *)
(* lack Mobile, Month or Year reports a failure and leaves the table.      *)
(***************************************************************************)
C7_MissingKeyFieldsFatal ==
    \A s \in Sessions :
        ( /\ Done(s)
          /\ run[s].did_read /\ ~run[s].read_failed
          /\ run[s].read_table.rows # EmptyBag
          /\ \/ ~(KeyCols \subseteq run[s].df.cols)
             \/ ~(KeyCols \subseteq run[s].read_table.cols) ) =>
        /\ ~run[s].success
        /\ run[s].after = run[s].before

(***************************************************************************)
(* C10 -- Concurrent runs are last-writer-wins: when two runs on a table   *)
(* both read it before either writes, the table the later writer leaves    *)
(* is the merge of its own records with the table it read, and a key only  *)
(* the earlier writer introduced is not in it; when the later run reads    *)
(* after the earlier run's write, no key is lost.                          *)
(***************************************************************************)
BothWrote(a, b) ==
    /\ a # b /\ Done(a) /\ Done(b)
    /\ run[a].target = run[b].target
    /\ run[a].success /\ run[b].success
    /\ run[a].did_read /\ ~run[a].read_failed
    /\ run[b].did_read /\ ~run[b].read_failed
    /\ run[a].load_ver = run[a].read_ver
    /\ run[b].load_ver = run[a].load_ver + 1

\* a wrote first, b had read before that write.
Raced(a, b) == BothWrote(a, b) /\ run[b].read_ver = run[a].read_ver

\* a wrote first, b read after that write.
Serialized(a, b) == BothWrote(a, b) /\ run[b].read_ver = run[a].read_ver + 1

LostKeys(a, b) ==
    CKeys(run[a].df) \ (TKeys(run[b].read_table) \cup CKeys(run[b].df))

C10_LastWriterWins ==
    \A a, b \in Sessions :
        /\ Raced(a, b) =>
              /\ run[b].after.rows = SetToBag(ExpectedRows(run[b].df, run[b].read_table))
              /\ LostKeys(a, b) \cap TKeys(run[b].after) = {}
        /\ Serialized(a, b) =>
              (TKeys(run[a].read_table) \cup CKeys(run[a].df) \cup CKeys(run[b].df))
                  \subseteq TKeys(run[b].after)

C10_Witness ==
    \E a, b \in Sessions :
        /\ Raced(a, b)
        /\ LostKeys(a, b) # {}
        /\ table[run[b].target] = run[b].after
        /\ run[b].read_table.rows # EmptyBag

(***************************************************************************)
(* Vocabulary of the properties of data_processor calls                    *)
(***************************************************************************)
Called(fn) == ppc = "returned" /\ call.fn = fn

\* Bi-month period ((month-1)//2)+1 of a date.
PeriodOf(d) == ((MonthOf(d) - 1) \div 2) + 1

\* (lead-identifier, year, bi-month period) of a record dated d; records
\* without a date form one group for a lead.
GroupOf(mobile, d) ==
    IF d \in {NoneInt, NaT} THEN <<mobile, "undated">>
    ELSE <<mobile, YearOf(d), PeriodOf(d)>>

\* Open < Prospect < Quoted < Closed < Converted, anything else below Open.
RankOf(status) ==
    CASE status = "Converted" -> 5 [] status = "Closed" -> 4
      [] status = "Quoted" -> 3 [] status = "Prospect" -> 2
      [] status = "Open" -> 1 [] OTHER -> 0

\* The rows of a frame are in ascending order of the date in column c.
AscendingBy(rows, c) ==
    \A i, j \in DOMAIN rows :
        (i < j /\ rows[i][c] # NaT /\ rows[j][c] # NaT) => rows[i][c] <= rows[j][c]

(***************************************************************************)
(* C11 -- Analytics dedup: the output of remove_duplicates_bimonth_ga has  *)
(* exactly one row for every (lead-identifier, year, bi-month period) of   *)
(* the input, that row is an input row, and its date is the minimum date   *)
(* of the input rows of its group.                                         *)
(***************************************************************************)
C11_AnalyticsDedup ==
    Called("remove_duplicates_bimonth_ga") =>
        LET in == call.df.rows
            out == result.df.rows
            G(r) == GroupOf(r["Mobile"], r["Date"])
        IN  /\ result.ok
            /\ {G(r) : r \in Range(out)} = {G(r) : r \in Range(in)}
            /\ \A i, j \in DOMAIN out : i # j => G(out[i]) # G(out[j])
            /\ \A o \in Range(out) :
                  /\ o \in Range(in)
                  /\ \A r \in Range(in) : G(r) = G(o) => o["Date"] <= r["Date"]

C11_Witness ==
    /\ Called("remove_duplicates_bimonth_ga")
    /\ Len(call.df.rows) = 3
    /\ Len(result.df.rows) = 2
    /\ call.df.rows[1]["Mobile"] = call.df.rows[2]["Mobile"]
    /\ call.df.rows[1]["Date"] = 240210
    /\ call.df.rows[2]["Date"] = 240105
    /\ result.df.rows[1] = call.df.rows[2]

(***************************************************************************)
(* C12 -- CRM dedup: the output of dedupe_salesforce_by_priority has       *)
(* exactly one row for every (lead-identifier, year, bi-month period of    *)
(* created-date) of the input; that row is an input row of the maximum     *)
(* status priority of its group, and of the maximum created-date among     *)
(* the rows of that priority.                                              *)
(***************************************************************************)
C12_CrmDedup ==
    Called("dedupe_salesforce_by_priority") =>
        LET in == call.sf_df.rows
            out == result.df.rows
            G(r) == GroupOf(r["Mobile"], r[date_col])
        IN  /\ result.ok
            /\ {G(r) : r \in Range(out)} = {G(r) : r \in Range(in)}
            /\ \A i, j \in DOMAIN out : i # j => G(out[i]) # G(out[j])
            /\ \A o \in Range(out) :
                  /\ \E r \in Range(in) :
                        [r EXCEPT ![date_col] = ToDatetime(@)] = o
                  /\ \A r \in Range(in) : G(r) = G(o) =>
                        /\ RankOf(o["Status"]) >= RankOf(r["Status"])
                        /\ (RankOf(r["Status"]) = RankOf(o["Status"])
                               /\ r[date_col] # NoneInt)
                              => o[date_col] >= r[date_col]

C12_Witness ==
    /\ Called("dedupe_salesforce_by_priority")
    /\ Len(call.sf_df.rows) = 3
    /\ Len(result.df.rows) = 1
    /\ \E i, j, k \in DOMAIN call.sf_df.rows :
          /\ call.sf_df.rows[i]["Status"] = "Open"
          /\ call.sf_df.rows[j]["Status"] = "Open"
          /\ call.sf_df.rows[i][date_col] < call.sf_df.rows[j][date_col]
          /\ call.sf_df.rows[k]["Status"] = "Converted"
    /\ result.df.rows[1]["Status"] = "Converted"

(***************************************************************************)
(* C13 -- Dedup output ordering: the result of remove_duplicates_bimonth_ga*)
(* is in ascending order of Date and the result of                         *)
(* dedupe_salesforce_by_priority is in ascending order of the created      *)
(* date.                                                                   *)
(***************************************************************************)
C13_DedupOrdered ==
    /\ Called("remove_duplicates_bimonth_ga") =>
          AscendingBy(result.df.rows, "Date")
    /\ Called("dedupe_salesforce_by_priority") =>
          AscendingBy(result.df.rows, date_col)

(***************************************************************************)
(* C14 -- compute_final_source: for every row, Final_Source is             *)
(* first_touch when first_touch is not "NA"; "FT_Organic" when first_touch *)
(* is "NA" and session_campaign contains "Brand"; session_campaign when    *)
(* first_touch is "NA" and session_campaign is not "NA" and has no         *)
(* "Brand"; "NA" when both are "NA".  Nothing else of the row changes.     *)
(***************************************************************************)
HasBrand(s) ==
    \E i \in 1..(Len(Text[s]) - 4) :
        /\ Text[s][i] = "B" /\ Text[s][i + 1] = "r" /\ Text[s][i + 2] = "a"
        /\ Text[s][i + 3] = "n" /\ Text[s][i + 4] = "d"

C14_FinalSource ==
    Called("calculate_final_source") =>
        /\ result.ok
        /\ Len(result.df.rows) = Len(call.df.rows)
        /\ \A i \in DOMAIN call.df.rows :
              LET first_touch == call.df.rows[i]["First_User_Campaign"]
                  session_campaign == call.df.rows[i]["Session_Campaign"]
                  o == result.df.rows[i]
              IN  /\ o["First_User_Campaign"] = first_touch
                  /\ o["Session_Campaign"] = session_campaign
                  /\ o["Final_Source"] =
                        IF first_touch # "NA" THEN first_touch
                        ELSE IF HasBrand(session_campaign) THEN "FT_Organic"
                        ELSE IF session_campaign # "NA" THEN session_campaign
                        ELSE "NA"

C14_Witness ==
    /\ Called("calculate_final_source")
    /\ call.df.rows = << [First_User_Campaign |-> "NA",
                          Session_Campaign |-> "Summer Brand Promo"] >>
    /\ result.df.rows[1]["Final_Source"] = "FT_Organic"

(***************************************************************************)
(* C15 -- normalize_campaign: apply_campaign_mapping makes every value of  *)
(* the denylist "NA" and leaves every other value, in First_User_Campaign  *)
(* and in Session_Campaign; applying it to its own result changes nothing. *)
(***************************************************************************)
C15_Normalize ==
    Called("apply_campaign_mapping") =>
        /\ result.ok
        /\ Len(result.df.rows) = Len(call.df.rows)
        /\ \A i \in DOMAIN call.df.rows :
           \A c \in {"First_User_Campaign", "Session_Campaign"} :
              result.df.rows[i][c] =
                  IF call.df.rows[i][c] \in CAMPAIGN_NA_MAPPING THEN "NA"
                  ELSE call.df.rows[i][c]
        /\ apply_campaign_mapping(result.df) = result.df

C15_Witness ==
    /\ Called("apply_campaign_mapping")
    /\ call.df.rows = << [First_User_Campaign |-> "(not set)",
                          Session_Campaign |-> "Bangalore"] >>
    /\ result.df.rows = << [First_User_Campaign |-> "NA",
                            Session_Campaign |-> "Bangalore"] >>

(***************************************************************************)
(* C16 -- Extraction drops, never errors: process_ga_data with a readable  *)
(* CRM input returns; after the extraction the rows kept are the analytics *)
(* rows whose token has a run of 10 digits, each with the first such run   *)
(* as its Mobile; a row of the result never has a token without a run.     *)
(***************************************************************************)
RunStarts(token) ==
    {i \in 1..(Len(Text[token]) - 9) :
        \A j \in 0..9 : Text[token][i + j] \in
                           {"0", "1", "2", "3", "4", "5", "6", "7", "8", "9"}}

HasRun(token) == RunStarts(token) # {}

FirstRun(token) ==
    LET i == CHOOSE m \in RunStarts(token) : \A n \in RunStarts(token) : m <= n
    IN  [k \in 1..10 |-> Text[token][i + k - 1]]

C16_ExtractionDrops ==
    ( /\ Called("process_ga_data")
      /\ (IsNone(call.sf_df) \/ IsEmpty(call.sf_df) \/ SfCols \subseteq call.sf_df.cols) )
    =>
        LET kept == SelectSeq(call.ga_data, LAMBDA r : HasRun(r["PnM_Parameter"]))
        IN  /\ result.ok
            /\ Len(result.canonical.rows) = Len(kept)
            /\ \A i \in DOMAIN kept :
                  /\ \A c \in GaCols : result.canonical.rows[i][c] = kept[i][c]
                  /\ Text[result.canonical.rows[i]["Mobile"]]
                        = FirstRun(kept[i]["PnM_Parameter"])
            /\ \A o \in Range(result.df.rows) :
                  /\ HasRun(o["PnM_Parameter"])
                  /\ Text[o["Mobile"]] = FirstRun(o["PnM_Parameter"])

C16_Witness ==
    /\ Called("process_ga_data")
    /\ result.ok
    /\ Len(call.ga_data) = 2
    /\ call.ga_data[1]["PnM_Parameter"] = "90000 00001"
    /\ call.ga_data[2]["PnM_Parameter"] = "919000000001x9000000002"
    /\ Len(result.df.rows) = 1
    /\ result.df.rows[1]["Mobile"] = "9190000000"

(***************************************************************************)
(* C17 -- map_status: every analytics row whose Mobile is the Mobile of no *)
(* CRM record has Status = "Not Found" and Shifting_Type = "Not Found";    *)
(* with an empty or absent CRM input every row has both.                   *)
(***************************************************************************)
C17_UnmatchedNotFound ==
    Called("map_salesforce_data") =>
        /\ (IsNone(call.sf_df) \/ IsEmpty(call.sf_df)) =>
              /\ result.ok
              /\ \A o \in Range(result.df.rows) :
                    o["Status"] = "Not Found" /\ o["Shifting_Type"] = "Not Found"
        /\ result.ok =>
              /\ Len(result.df.rows) = Len(call.ga_df.rows)
              /\ \A i \in DOMAIN call.ga_df.rows :
                    (\A r \in Range(call.sf_df.rows) :
                        r["Mobile"] # call.ga_df.rows[i]["Mobile"])
                    => /\ result.df.rows[i]["Mobile"] = call.ga_df.rows[i]["Mobile"]
                       /\ result.df.rows[i]["Status"] = "Not Found"
                       /\ result.df.rows[i]["Shifting_Type"] = "Not Found"

C17_Witness ==
    /\ Called("map_salesforce_data")
    /\ result.ok
    /\ call.sf_df.rows # <<>>
    /\ Len(call.ga_df.rows) = 2
    /\ call.ga_df.rows[1]["Mobile"] = Mobile3
    /\ result.df.rows[1]["Status"] = "Not Found"
    /\ result.df.rows[2]["Status"] = "Converted"

(***************************************************************************)
(* C18 -- map_status with a non-empty CRM input that lacks any of Mobile,  *)
(* created date, Status, Shifting Type fails with an error that names      *)
(* exactly the missing fields and returns no mapped table.                 *)
(***************************************************************************)
C18_SchemaError ==
    ( /\ Called("map_salesforce_data")
      /\ ~IsNone(call.sf_df) /\ call.sf_df.rows # <<>> /\ call.sf_df.cols # {}
      /\ ~(SfCols \subseteq call.sf_df.cols) )
    =>
        /\ ~result.ok
        /\ result.error = "ValueError"
        /\ Range(result.missing) = SfCols \ call.sf_df.cols
        /\ Len(result.missing) = Cardinality(SfCols \ call.sf_df.cols)
        /\ "df" \notin DOMAIN result

C18_Witness ==
    /\ Called("map_salesforce_data")
    /\ call.ga_df.rows # <<>>
    /\ call.sf_df.rows # <<>>
    /\ SfCols \ call.sf_df.cols = {"Status", "Shifting Type"}
    /\ ~result.ok
    /\ result.missing = <<"Status", "Shifting Type">>

(***************************************************************************)
(* C19 -- map_auxiliary leaves the primary table intact: the output of     *)
(* map_ne_data has the rows of mapped_df, in number and order, with every  *)
(* column of mapped_df unchanged; a colliding auxiliary column comes under *)
(* the name with _NE, a date-like auxiliary column does not come, a         *)
(* repeated auxiliary Mobile gives the values of its first row; a null or  *)
(* empty aux_df returns mapped_df.                                         *)
(***************************************************************************)
FirstAux(ne, mobile) ==
    ne.rows[CHOOSE i \in DOMAIN ne.rows :
               /\ ne.rows[i]["Mobile"] = mobile
               /\ \A j \in 1..(i - 1) : ne.rows[j]["Mobile"] # mobile]

C19_AuxiliaryFrame ==
    Called("map_ne_data") =>
        LET m == call.mapped_df
            ne == call.ne_df
            out == result.df
        IN  /\ result.ok
            /\ (IsNone(ne) \/ ne.rows = <<>>) => out = m
            /\ Len(out.rows) = Len(m.rows)
            /\ m.cols \subseteq out.cols
            /\ \A i \in DOMAIN m.rows : \A c \in m.cols : out.rows[i][c] = m.rows[i][c]
            /\ (~IsNone(ne) /\ ne.rows # <<>>) =>
                  /\ out.cols = m.cols
                        \cup ({"City"} \cap ne.cols)
                        \cup (IF "Status" \in ne.cols THEN {"Status_NE"} ELSE {})
                  /\ \A i \in DOMAIN m.rows :
                        LET hit == \E r \in Range(ne.rows) :
                                       r["Mobile"] = m.rows[i]["Mobile"]
                            aux == FirstAux(ne, m.rows[i]["Mobile"])
                        IN  /\ "City" \in ne.cols =>
                                  out.rows[i]["City"] =
                                      IF hit THEN aux["City"] ELSE NoneStr
                            /\ "Status" \in ne.cols =>
                                  out.rows[i]["Status_NE"] =
                                      IF hit THEN aux["Status"] ELSE NoneStr

C19_Witness ==
    /\ Called("map_ne_data")
    /\ Len(call.mapped_df.rows) = 2
    /\ call.mapped_df.rows[1]["Mobile"] = Mobile1
    /\ call.mapped_df.rows[2]["Mobile"] = Mobile2
    /\ call.ne_df.cols = NeCols
    /\ call.ne_df.rows = << NeRow(Mobile1, "Delhi", "Lost", 240102),
                            NeRow(Mobile1, "Pune", "Won", 240101) >>
    /\ result.df.rows[1]["Status_NE"] = "Lost"
    /\ result.df.rows[1]["Status"] = call.mapped_df.rows[1]["Status"]
    /\ result.df.rows[2]["City"] = NoneStr

(***************************************************************************)
(* C20 -- expand_to_bimonth: for start_date <= end_date, expanded_start is *)
(* not after start_date and is day 1 of the odd month that opens           *)
(* start_date's bi-month period, in start_date's year; expanded_end is not *)
(* before end_date and is the last calendar day (29 February in leap       *)
(* years) of the even month that closes end_date's period, in end_date's   *)
(* year.  (2024-03-15, 2024-03-20) gives (2024-03-01, 2024-04-30).         *)
(***************************************************************************)
LastDayOf(y, m) ==
    CASE m \in {1, 3, 5, 7, 8, 10, 12} -> 31
      [] m \in {4, 6, 9, 11} -> 30
      [] OTHER -> IF y % 400 = 0 \/ (y % 4 = 0 /\ y % 100 # 0) THEN 29 ELSE 28

C20_ExpandToBimonth ==
    Called("get_bimonth_date_range") =>
        LET s == call.start_date
            e == call.end_date
            xs == result.range[1]
            xe == result.range[2]
        IN  /\ DateLE(xs, s)
            /\ DateLE(e, xe)
            /\ xs.year = s.year /\ xs.day = 1
            /\ xs.month \in {1, 3, 5, 7, 9, 11}
            /\ xs.month \in {s.month, s.month - 1}
            /\ xe.year = e.year
            /\ xe.month \in {2, 4, 6, 8, 10, 12}
            /\ xe.month \in {e.month, e.month + 1}
            /\ xe.day = LastDayOf(xe.year, xe.month)
            /\ (s = MkDate(2024, 3, 15) /\ e = MkDate(2024, 3, 20)) =>
                  (xs = MkDate(2024, 3, 1) /\ xe = MkDate(2024, 4, 30))

C20_Witness ==
    /\ Called("get_bimonth_date_range")
    /\ call.start_date = MkDate(2024, 1, 15)
    /\ call.end_date = MkDate(2024, 1, 20)
    /\ result.range = <<MkDate(2024, 1, 1), MkDate(2024, 2, 29)>>

(***************************************************************************)
(* C21 -- window stability: the Fetch & Process handler asks the analytics *)
(* source for one range, the expanded range, which is the smallest range   *)
(* made of whole bi-month periods that contains the reporting window; any  *)
(* window whose start lies in the same (year, period) and whose end lies   *)
(* in the same (year, period) gives the identical requested range.         *)
(***************************************************************************)
BimonthOf(d) == <<d.year, (d.month + 1) \div 2>>

PeriodFirst(P) == MkDate(P[1], 2 * P[2] - 1, 1)

PeriodLast(P) == MkDate(P[1], 2 * P[2], LastDayOf(P[1], 2 * P[2]))

\* range is the least range of whole periods around the window s..e.
SmallestCover(range, s, e) ==
    LET AllPeriods == {2023, 2024, 2100} \X (1..6)
        Covers(P, Q) == DateLE(PeriodFirst(P), s) /\ DateLE(e, PeriodLast(Q))
    IN  /\ \E P, Q \in AllPeriods :
              /\ range = <<PeriodFirst(P), PeriodLast(Q)>>
              /\ Covers(P, Q)
        /\ \A P, Q \in AllPeriods :
              Covers(P, Q) => /\ DateLE(PeriodFirst(P), range[1])
                              /\ DateLE(range[2], PeriodLast(Q))

\* Every window with the same periods of start and end gets the same range.
SameForPeriods(range, s, e) ==
    \A a \in {d \in Dates : BimonthOf(d) = BimonthOf(s)} :
        \A b \in {d \in Dates : BimonthOf(d) = BimonthOf(e)} :
            DateLE(a, b) => RequestedRange(a, b) = range

C21_WindowStability ==
    /\ Called("fetch_and_process") =>
          LET s == call.start_date
              e == call.end_date
              asks == /\ ~IsNone(call.sf_file)
                      /\ SfCols \subseteq call.sf_file.cols
                      /\ DateLE(s, e)
          IN  /\ Len(result.requested) = IF asks THEN 1 ELSE 0
              /\ asks => /\ SmallestCover(result.requested[1], s, e)
                         /\ SameForPeriods(result.requested[1], s, e)
    /\ Called("get_bimonth_date_range") =>
          /\ SmallestCover(result.range, call.start_date, call.end_date)
          /\ SameForPeriods(result.range, call.start_date, call.end_date)

C21_Witness ==
    /\ Called("fetch_and_process")
    /\ call.start_date = MkDate(2023, 12, 20)
    /\ call.end_date = MkDate(2024, 3, 1)
    /\ result.requested = << <<MkDate(2023, 11, 1), MkDate(2024, 4, 30)>> >>
    /\ result.data_loaded
    /\ RequestedRange(MkDate(2023, 11, 1), MkDate(2024, 4, 20))
          = result.requested[1]

(***************************************************************************)
(* C22 -- empty input never errors: a deduplicator given no rows returns   *)
(* no rows; map_status given no CRM rows returns the analytics rows;       *)
(* map_auxiliary given no auxiliary rows returns its input; the merge with *)
(* an empty side returns the rows of the other side; the stages given no   *)
(* analytics rows return none; process_ga_data, when no analytics row      *)
(* yields a lead identifier, returns an empty table and no error.          *)
(***************************************************************************)
\* The rows of out, on the columns of df, are the rows of df.
SameOn(out, df) ==
    /\ Len(out.rows) = Len(df.rows)
    /\ df.cols \subseteq out.cols
    /\ \A i \in DOMAIN df.rows : \A c \in df.cols : out.rows[i][c] = df.rows[i][c]

\* A CRM argument that is absent, or has the required columns.
CrmUsable(sf_df) == IsNone(sf_df) \/ SfCols \subseteq sf_df.cols

C22_EmptyInput ==
    /\ (Called("remove_duplicates_bimonth_ga") /\ call.df.rows = <<>>) =>
          (result.ok /\ result.df = call.df)
    /\ (Called("dedupe_salesforce_by_priority") /\ call.sf_df.rows = <<>>) =>
          (result.ok /\ result.df = call.sf_df)
    /\ (Called("apply_campaign_mapping") /\ call.df.rows = <<>>) =>
          (result.ok /\ result.df.rows = <<>>)
    /\ (Called("calculate_final_source") /\ call.df.rows = <<>>) =>
          (result.ok /\ result.df.rows = <<>>)
    /\ (Called("map_salesforce_data")
           /\ (IsNone(call.sf_df) \/ call.sf_df.rows = <<>>)) =>
          (result.ok /\ SameOn(result.df, call.ga_df))
    /\ (Called("map_salesforce_data") /\ call.ga_df.rows = <<>>
           /\ CrmUsable(call.sf_df)) =>
          (result.ok /\ result.df.rows = <<>>)
    /\ (Called("map_ne_data")
           /\ (IsNone(call.ne_df) \/ call.ne_df.rows = <<>>)) =>
          (result.ok /\ result.df = call.mapped_df)
    /\ (Called("map_ne_data") /\ call.mapped_df.rows = <<>>) =>
          (result.ok /\ result.df.rows = <<>>)
    /\ (Called("merge_with_existing_data") /\ IsEmpty(call.existing)) =>
          (result.ok /\ result.merged_df = call.new)
    /\ (Called("merge_with_existing_data") /\ call.new.rows = <<>>
           /\ ~IsEmpty(call.existing)) =>
          (result.ok /\ result.merged_df = call.existing)
    /\ (Called("process_ga_data") /\ CrmUsable(call.sf_df)
           /\ \A i \in DOMAIN call.ga_data :
                 ~HasRun(call.ga_data[i]["PnM_Parameter"])) =>
          (result.ok /\ result.df.rows = <<>>)

C22_Witness ==
    /\ Called("process_ga_data")
    /\ Len(call.ga_data) = 2
    /\ \A i \in DOMAIN call.ga_data : ~HasRun(call.ga_data[i]["PnM_Parameter"])
    /\ ~IsNone(call.sf_df)
    /\ Len(call.sf_df.rows) = 2
    /\ SfCols \subseteq call.sf_df.cols
    /\ result.ok
    /\ result.df.rows = <<>>
    /\ "Status" \in result.df.cols

(***************************************************************************)
(* C23 -- run statistics are surfaced: a successful upload returns         *)
(* total_rows = the number of rows written to the table and new_records    *)
(* and status_updates = the counts of the merge; the dashboard's handler   *)
(* receives the status-updates count as a number, reports it when it is    *)
(* greater than zero and completes without error; a failed upload returns  *)
(* the three statistics as 0.                                              *)
(***************************************************************************)
\* The statistics of run r are those of the merge of its records with what
\* it read.
StatsOfMerge(r) ==
    \E existing \in IF r.read_failed THEN {EmptyFrame}
                    ELSE {[cols |-> r.read_table.cols, rows |-> o] :
                             o \in Orders(r.read_table.rows)} :
        LET f == Final(r.target, r.df, existing)
        IN  /\ f.ok
            /\ r.stats.new_records = f.new_records_count
            /\ r.stats.status_updates = f.status_updates_count
            /\ r.stats.total_rows = Len(f.merged_df.rows)

\* What the upload itself returns is as claimed.
C23_StatisticsReturned ==
    \A s \in Sessions :
        Done(s) =>
            /\ run[s].success =>
                  /\ run[s].stats.total_rows = BagCardinality(run[s].after.rows)
                  /\ StatsOfMerge(run[s])
            /\ ~run[s].success => run[s].stats = Stats(0, 0, 0)

C23_StatisticsSurfaced ==
    /\ C23_StatisticsReturned
    /\ \A s \in Sessions :
          Done(s) =>
              LET h == upload_button(UploadReturn(run[s]))
              IN  /\ h.raised = "none"
                  /\ (run[s].success /\ run[s].stats.status_updates > 0) =>
                        h.reported = <<run[s].stats.status_updates>>

(***************************************************************************)
(* C24 -- key uniqueness of the persisted tables: starting from empty      *)
(* tables, after any sequence of upload runs and resets in which every     *)
(* run's record set has at most one row for a (Mobile, Month, Year), each  *)
(* persisted table has at most one row for a (Mobile, Month, Year).        *)
(***************************************************************************)
C24_KeyUniqueness ==
    \A t \in TableNames :
        /\ \A r \in BagToSet(table[t].rows) : CopiesIn(r, table[t].rows) = 1
        /\ \A r1, r2 \in BagToSet(table[t].rows) : CKey(r1) = CKey(r2) => r1 = r2

\* A run, a reset, and a run that found the table empty and stored two keys.
C24_Witness ==
    /\ nruns = 2
    /\ ver[BQ_TABLE_GA_SF] = 2
    /\ Done(AppSession)
    /\ run[AppSession].success
    /\ ~run[AppSession].read_failed
    /\ run[AppSession].read_ver = 1
    /\ BagCardinality(run[AppSession].read_table.rows) = 0
    /\ BagToSet(table[BQ_TABLE_GA_SF].rows) = {RowB, RowC}


(***************************************************************************)
(* C25 -- Monotone recency across runs: over successful serialized upload  *)
(* runs without a reset, a composite key once present in the persisted     *)
(* table stays present after every later run, and the date of the row      *)
(* stored for that key never decreases from one run to the next.           *)
(***************************************************************************)
\* Session s ends a successful run with this step, and no other writer came
\* between its read of the table and its load.
SerializedLoad(s) ==
    /\ pc[s] = "load" /\ pc'[s] = "done"
    /\ run'[s].success
    /\ run[s].read_ver = ver[run[s].target]

\* Every key of the table before the step is in the table after it, with a
\* date that is not earlier.
KeptWithRecency(t) ==
    \A e \in BagToSet(table[t].rows) :
        \E r \in BagToSet(table'[t].rows) :
            CKey(r) = CKey(e) /\ r["Date"] >= e["Date"]

C25_MonotoneRecency ==
    [][\A s \in Sessions :
          SerializedLoad(s) => KeptWithRecency(run[s].target)]_vars

\* The same property of the runs whose read of the table did not fail.
C25_MonotoneWhenRead ==
    [][\A s \in Sessions :
          (SerializedLoad(s) /\ ~run[s].read_failed) =>
              KeptWithRecency(run[s].target)]_vars


(***************************************************************************)
(* C26 -- Merge size accounting: when new_records and existing_records     *)
(* each hold at most one row per composite key, the keys of the merge      *)
(* output are the union of the keys of the two inputs, and the output has  *)
(* len(existing_records) + new_records_count rows.                         *)
(***************************************************************************)
OneRowPerKey(df) == Cardinality(CKeys(df)) = Len(df.rows)

C26_MergeSizeAccounting ==
    ( /\ mpc = "returned"
      /\ OneRowPerKey(new_df) /\ OneRowPerKey(existing_df) ) =>
        /\ merge_out.ok
        /\ CKeys(merge_out.merged_df) = CKeys(new_df) \cup CKeys(existing_df)
        /\ Len(merge_out.merged_df.rows) =
              Len(existing_df.rows) + merge_out.new_records_count

\* Two rows on each side, one key on both sides, one key on each side only.
C26_Witness ==
    /\ mpc = "returned" /\ merge_out.ok
    /\ OneRowPerKey(new_df) /\ OneRowPerKey(existing_df)
    /\ Len(new_df.rows) = 2 /\ Len(existing_df.rows) = 2
    /\ Cardinality(CKeys(new_df) \cap CKeys(existing_df)) = 1
    /\ merge_out.new_records_count = 1
    /\ Len(merge_out.merged_df.rows) = 3


(***************************************************************************)
(* C27 -- map_status with a lead that has CRM records in more than one     *)
(* (year, bi-month period), all with valid created dates: every analytics  *)
(* row of that lead receives the status and the category of one CRM        *)
(* record, the dedup survivor of the lead's latest (year, period); a       *)
(* status or category that this record does not have comes out as          *)
(* "Not Found".                                                            *)
(***************************************************************************)
LeadRecords(sf, m) == {i \in DOMAIN sf.rows : sf.rows[i]["Mobile"] = m}

\* (year, period) of a created date, as one number.
PeriodNo(d) == YearOf(d) * 10 + (MonthOf(d) + 1) \div 2

\* The lead has records in more than one period and all its dates are valid.
SeveralPeriods(sf, m) ==
    /\ \A i \in LeadRecords(sf, m) : sf.rows[i][date_col] \notin {NoneInt, NaT}
    /\ \E i, j \in LeadRecords(sf, m) :
          PeriodNo(sf.rows[i][date_col]) # PeriodNo(sf.rows[j][date_col])

\* The record of the lead that survives the dedup of its latest period:
\* highest priority, then latest created date, then first in the input.
LatestSurvivor(sf, m) ==
    LET Beats(i, j) ==
            LET a == sf.rows[i]
                b == sf.rows[j]
            IN  \/ PeriodNo(a[date_col]) > PeriodNo(b[date_col])
                \/ /\ PeriodNo(a[date_col]) = PeriodNo(b[date_col])
                   /\ \/ RankOf(a["Status"]) > RankOf(b["Status"])
                      \/ /\ RankOf(a["Status"]) = RankOf(b["Status"])
                         /\ \/ a[date_col] > b[date_col]
                            \/ a[date_col] = b[date_col] /\ i < j
    IN  sf.rows[CHOOSE i \in LeadRecords(sf, m) :
                   \A j \in LeadRecords(sf, m) \ {i} : Beats(i, j)]

Filled(v) == IF v = NoneStr THEN "Not Found" ELSE v

\* The statement without its last clause: the values are the record's own.
C27_LatestPeriodRecord ==
    (Called("map_salesforce_data") /\ result.ok /\ ~IsNone(call.sf_df)) =>
        \A i \in DOMAIN call.ga_df.rows :
            LET m == call.ga_df.rows[i]["Mobile"]
            IN  SeveralPeriods(call.sf_df, m) =>
                   /\ result.df.rows[i]["Status"] =
                         LatestSurvivor(call.sf_df, m)["Status"]
                   /\ result.df.rows[i]["Shifting_Type"] =
                         LatestSurvivor(call.sf_df, m)["Shifting Type"]

C27_LatestPeriodRecordFilled ==
    (Called("map_salesforce_data") /\ result.ok /\ ~IsNone(call.sf_df)) =>
        \A i \in DOMAIN call.ga_df.rows :
            LET m == call.ga_df.rows[i]["Mobile"]
            IN  SeveralPeriods(call.sf_df, m) =>
                   /\ result.df.rows[i]["Status"] =
                         Filled(LatestSurvivor(call.sf_df, m)["Status"])
                   /\ result.df.rows[i]["Shifting_Type"] =
                         Filled(LatestSurvivor(call.sf_df, m)["Shifting Type"])

\* Two leads' rows, the first lead Converted in January-February and Open in
\* March-April.
C27_Witness ==
    /\ Called("map_salesforce_data") /\ result.ok
    /\ Len(call.ga_df.rows) = 2
    /\ call.ga_df.rows[1]["Mobile"] = Mobile1
    /\ call.sf_df.rows = << SfRow(Mobile1, 240320, "Open", "Office"),
                            SfRow(Mobile1, 240210, "Converted", "Intercity") >>
    /\ result.df.rows[1]["Status"] = "Open"
    /\ result.df.rows[1]["Shifting_Type"] = "Office"


(***************************************************************************)
(* C28 -- map_status keeps all analytics records: whatever the CRM table,  *)
(* the output of map_salesforce_data has the rows of the analytics input,  *)
(* in number and order, with every field the input had unchanged, and has  *)
(* the Status and Shifting_Type fields added and nothing else.             *)
(***************************************************************************)
C28_KeepsAnalyticsRecords ==
    (Called("map_salesforce_data") /\ result.ok) =>
        LET ga == call.ga_df
            out == result.df
        IN  /\ Len(out.rows) = Len(ga.rows)
            /\ out.cols = ga.cols \cup {"Status", "Shifting_Type"}
            /\ \A i \in DOMAIN ga.rows :
                  /\ DOMAIN out.rows[i] = out.cols
                  /\ \A c \in ga.cols : out.rows[i][c] = ga.rows[i][c]

\* A lead with two CRM records, before a lead with none.
C28_Witness ==
    /\ Called("map_salesforce_data") /\ result.ok
    /\ Len(call.ga_df.rows) = 2
    /\ call.ga_df.rows[1]["Mobile"] = Mobile1
    /\ call.ga_df.rows[2]["Mobile"] = Mobile3
    /\ Len(call.sf_df.rows) = 2
    /\ \A r \in Range(call.sf_df.rows) : r["Mobile"] = Mobile1
    /\ call.sf_df.rows[1] # call.sf_df.rows[2]
    /\ Len(result.df.rows) = 2
    /\ result.df.rows[2]["Mobile"] = Mobile3
    /\ result.df.rows[2]["Status"] = "Not Found"


(***************************************************************************)
(* C29 -- Reset lockout: the failed-attempt counter of each table's reset  *)
(* dialog stays within 0..max_attempts; a Confirm Reset with a wrong       *)
(* password adds one to it; a Confirm Reset with the correct password,     *)
(* possible only while not locked, sets it to 0 and is the only run that   *)
(* calls reset_table; once the counter is max_attempts nothing in the      *)
(* session changes it or resets that table; the counter of the other table *)
(* is not touched.                                                         *)
(***************************************************************************)
Attempts(t) == session_state.reset_attempts[t]

\* The run that rendered the page handled Confirm Reset of table t.
Confirmed(pg, t) == pg.confirm # <<>> /\ pg.confirm[1].table = t

CorrectPassword(pg) ==
    pg.confirm[1].password = secrets.security.reset_password

\* What a state shows: the range of the counters, and that a page whose
\* run called reset_table is the page of a correct password.
ResetState ==
    \A t \in TableNames :
        /\ Attempts(t) \in 0..max_attempts
        /\ t \in page.reset =>
              /\ Confirmed(page, t) /\ CorrectPassword(page)
              /\ Attempts(t) = 0

\* What a step does to the counter and the table of t.
ResetStep(t) ==
    LET a == session_state.reset_attempts[t]
        b == session_state'.reset_attempts[t]
    IN  /\ b # a =>
              /\ a < max_attempts
              /\ Confirmed(page', t)
              /\ IF CorrectPassword(page') THEN b = 0 /\ t \in page'.reset
                 ELSE b = a + 1 /\ page'.reset = {}
        /\ (page' # page /\ Confirmed(page', t)) =>
              /\ a < max_attempts
              /\ IF CorrectPassword(page') THEN b = 0 /\ t \in page'.reset
                 ELSE b = a + 1 /\ page'.reset = {}
        /\ a = max_attempts =>
              /\ b = a
              /\ ~(page' # page /\ t \in page'.reset)
              /\ table'[t] # table[t] => ver'[t] # ver[t]
        /\ (table'[t] # table[t] /\ ver'[t] = ver[t]) => t \in page'.reset

C29_ResetLockout ==
    /\ []ResetState
    /\ [][\A t \in TableNames : ResetStep(t)]_vars

\* One dialog is locked, and the other has reset its table since.
C29_Witness ==
    /\ Attempts(BQ_TABLE_GA_SF) = max_attempts
    /\ Attempts(BQ_TABLE_GA_SF_NE) = 0
    /\ page.reset = {BQ_TABLE_GA_SF_NE}
    /\ ver[BQ_TABLE_GA_SF_NE] = 1
    /\ BagCardinality(table[BQ_TABLE_GA_SF_NE].rows) = 0
    /\ BagCardinality(table[BQ_TABLE_GA_SF].rows) > 0


(***************************************************************************)
(* C30 -- Access gate: check_email_access never grants an empty email or   *)
(* an email of the blocked list (letters compared without their case),     *)
(* even when the email is in the allowed-emails list or its domain is      *)
(* allowed; an email that is not blocked is granted exactly when it is in  *)
(* the allowed-emails list or its domain, the text after its last '@', is  *)
(* in the allowed-domains list; the dashboard body, the uploads and the    *)
(* reset dialogs are reached only by a session that is authenticated with  *)
(* an email that passes this check.                                        *)
(***************************************************************************)
SmallLetter ==
    ("A" :> "a") @@ ("B" :> "b") @@ ("C" :> "c") @@
    ("X" :> "x") @@ ("Y" :> "y") @@ ("Z" :> "z")

Fold(s) ==
    [i \in DOMAIN s |->
        IF s[i] \in DOMAIN SmallLetter THEN SmallLetter[s[i]] ELSE s[i]]

FoldAll(list) == {Fold(e) : e \in list}

\* The text after the last '@' of an email that has one.
DomainOf(email) ==
    CHOOSE d \in {SubSeq(email, i + 1, Len(email)) : i \in DOMAIN email} :
        /\ email[Len(email) - Len(d)] = "@"
        /\ \A j \in DOMAIN d : d[j] # "@"

IsBlocked(email, auth) == Fold(email) \in FoldAll(auth.blocked_emails)

Granted(email, auth) ==
    /\ email # <<>>
    /\ ~IsBlocked(email, auth)
    /\ \/ Fold(email) \in FoldAll(auth.allowed_emails)
       \/ Fold(DomainOf(email)) \in FoldAll(auth.allowed_domains)

\* Emails of Google accounts, and texts with more than one '@'.
Emails ==
    { <<"a", "@", "x">>, <<"A", "@", "X">>, <<"b", "@", "x">>,
      <<"b", "@", "y">>, <<"B", "@", "Y">>, <<"c", "@", "y">>,
      <<"b", "@", "z">>, <<"a", "@", "z", "@", "x">>,
      <<"a", "@", "x", "@", "z">> }

CheckState ==
    /\ ~check_email_access(<<>>, secrets.auth)
    /\ \A email \in Emails :
          /\ IsBlocked(email, secrets.auth) =>
                ~check_email_access(email, secrets.auth)
          /\ check_email_access(email, secrets.auth) =
                Granted(email, secrets.auth)

\* The session is authenticated with an email that passes the check.
Admitted(state) ==
    /\ state.authenticated
    /\ state.user_email # <<>>
    /\ Granted(state.user_email, secrets.auth)

GateStep ==
    /\ (page' # page /\ page'.view = "body") => Admitted(session_state')
    /\ nruns' # nruns => Admitted(session_state)
    /\ session_state'.reset_attempts # session_state.reset_attempts =>
          Admitted(session_state)
    /\ session_state'.show_reset # session_state.show_reset =>
          Admitted(session_state)
    /\ (\E t \in TableNames : table'[t] # table[t] /\ ver'[t] = ver[t]) =>
          Admitted(session_state)

C30_AccessGate ==
    /\ []CheckState
    /\ [][GateStep]_vars

\* An account that signed in and uploaded is blocked afterwards, and the
\* next run of the script turns it down.
C30_Witness ==
    /\ session_state.authenticated
    /\ session_state.user_email = <<"b", "@", "x">>
    /\ <<"b", "@", "X">> \in secrets.auth.blocked_emails
    /\ nruns = 1 /\ ver[BQ_TABLE_GA_SF] = 1
    /\ page.view = "denied"

=============================================================================
